---- MODULE Spec2Model ----
(***************************************************************************)
(* Model of the energy-manager-iot core: the DeviceRegistry (device table  *)
(* and device<->group index), the EnergyManager status lifecycle (inbound  *)
(* status reports, periodic offline sweep), the sweep timer, the commands  *)
(* to devices and groups, and the group statistics.                        *)
(*                                                                         *)
(* JavaScript strings that are validated or parsed are sequences of        *)
(* one-character strings, JavaScript objects with optional keys are        *)
(* functions from the set of present keys to values.                       *)
(***************************************************************************)
EXTENDS Integers, Sequences, FiniteSets, TLC

VARIABLES
    devices,              \* DeviceRegistry.devices : Map<string, Device>
    groups,               \* DeviceRegistry.groups  : Map<string, Set<string>>
    now,                  \* the wall clock read by Date.now()
    mqtt,                 \* MqttHandler: client !== null, isConnected
    topicPrefix,          \* EnergyManager.topicPrefix
    statusCheckInterval,  \* EnergyManager.statusCheckInterval is set (timer running)
    timers,               \* the intervals made by setInterval and not cleared
    subscriptions,        \* topics handed to subscribe of the present client, less those unsubscribed
    silent,               \* environment: devices that have stopped reporting
    offlineEmits,         \* history: deviceOffline(id) emitted since the last report merged for id
    emitted,              \* notifications emitted by the most recent step, in order
    calls,                \* sendCommand / sendCommandToGroup calls and their member sends
    published,            \* topics handed to client.publish by the most recent step, in order
    ret                   \* the most recent call: operation, arguments, outcome

vars ==
    <<devices, groups, now, mqtt, topicPrefix, statusCheckInterval, timers, subscriptions,
      silent, offlineEmits, emitted, calls, published, ret>>

----------------------------------------------------------------------------
(* Bounds of the model *)

MaxNow == 3

\* the number of command calls that are followed at the same time
MaxCalls == 1

\* the clock's bound while only the registry is exercised
RegistryMaxNow == 1

(* statusInterval option of the EnergyManager, in clock units *)
statusUpdateInterval == 1

----------------------------------------------------------------------------
(* Strings and objects *)

Lower == {"a","b","c","d","e","f","g","h","i","j","k","l","m",
          "n","o","p","q","r","s","t","u","v","w","x","y","z"}
Upper == {"A","B","C","D","E","F","G","H","I","J","K","L","M",
          "N","O","P","Q","R","S","T","U","V","W","X","Y","Z"}
Digit == {"0","1","2","3","4","5","6","7","8","9"}

\* { ...a, ...b }
Spread(a, b) ==
    [k \in (DOMAIN a) \cup (DOMAIN b) |-> IF k \in DOMAIN b THEN b[k] ELSE a[k]]

\* Array.prototype.includes
Includes(arr, x) == \E i \in 1..Len(arr) : arr[i] = x

\* Array.prototype.filter(g => g !== x)
RECURSIVE FilterOut(_, _)
FilterOut(arr, x) ==
    IF arr = <<>> THEN <<>>
    ELSE IF Head(arr) = x THEN FilterOut(Tail(arr), x)
         ELSE <<Head(arr)>> \o FilterOut(Tail(arr), x)

\* Map.prototype.set
MapSet(m, k, v) == [x \in (DOMAIN m) \cup {k} |-> IF x = k THEN v ELSE m[x]]

\* Map.prototype.delete
MapDelete(m, k) == [x \in (DOMAIN m) \ {k} |-> m[x]]

----------------------------------------------------------------------------
(* Validators *)

\* /^[a-zA-Z0-9_-]{3,50}$/
validateDeviceId(id) ==
    /\ Len(id) >= 3
    /\ Len(id) <= 50
    /\ \A i \in 1..Len(id) : id[i] \in Lower \cup Upper \cup Digit \cup {"_", "-"}

\* /^[a-zA-Z0-9 -]{2,50}$/
validateGroupName(name) ==
    /\ Len(name) >= 2
    /\ Len(name) <= 50
    /\ \A i \in 1..Len(name) : name[i] \in Lower \cup Upper \cup Digit \cup {" ", "-"}

validateDeviceConfig(config) ==
    /\ "reportingInterval" \in DOMAIN config =>
          ~(config.reportingInterval < 1 \/ config.reportingInterval > 86400)
    /\ "sleepThreshold" \in DOMAIN config =>
          ~(config.sleepThreshold < 0 \/ config.sleepThreshold > 100)
    /\ "securityLevel" \in DOMAIN config =>
          ~(config.securityLevel < 1 \/ config.securityLevel > 5)

----------------------------------------------------------------------------
(* DeviceRegistry.  Every method is an operator from the registry's maps   *)
(* (devs, grps) and the arguments to the maps after the call and the       *)
(* outcome: "true"/"false" for a returned boolean, "ok" for a returned     *)
(* Device, or the thrown EnergyManagerError:                               *)
(*   InvalidId, AlreadyExists, InvalidConfig, InvalidGroupName             *)
(*                      ErrorType.VALIDATION, told apart by the message    *)
(*   NotFound           ErrorType.DEVICE_NOT_FOUND                         *)
(*   GroupNotFound      ErrorType.GROUP_NOT_FOUND                          *)

Outcome(devs, grps, result) == [devices |-> devs, groups |-> grps, result |-> result]

getDevice(devs, id) ==
    IF id \in DOMAIN devs THEN "ok" ELSE "NotFound"

hasDevice(devs, id) == id \in DOMAIN devs

\* createGroup without the look-up of the existing group
createGroup_overwrite(devs, grps, name) ==
    IF ~validateGroupName(name) THEN Outcome(devs, grps, "InvalidGroupName")
    ELSE Outcome(devs, MapSet(grps, name, {}), "true")

createGroup(devs, grps, name) ==
    IF ~validateGroupName(name) THEN Outcome(devs, grps, "InvalidGroupName")
    ELSE IF name \in DOMAIN grps THEN Outcome(devs, grps, "false")
    ELSE Outcome(devs, MapSet(grps, name, {}), "true")

\* addDeviceToGroup that pushes the group name without looking for it in
\* the list of the device
addDeviceToGroup_alwaysPush(devs, grps, deviceId, groupName, device, t) ==
    IF ~validateGroupName(groupName)
    THEN Outcome(devs, grps, "InvalidGroupName") @@ [deviceRef |-> device]
    ELSE LET grps1 == IF groupName \notin DOMAIN grps
                      THEN createGroup(devs, grps, groupName).groups
                      ELSE grps
         IN  IF device = <<>> /\ getDevice(devs, deviceId) # "ok"
             THEN Outcome(devs, grps1, "NotFound") @@ [deviceRef |-> device]
             ELSE LET deviceRef == IF device # <<>> THEN device[1] ELSE devs[deviceId]
                      grps2 == [grps1 EXCEPT ![groupName] = @ \cup {deviceId}]
                      d2 == [deviceRef EXCEPT !.groups = Append(@, groupName),
                                              !.updatedAt = t]
                  IN  Outcome(MapSet(devs, deviceId, d2), grps2, "true")
                         @@ [deviceRef |-> <<d2>>]

\* device is <<>> when the optional parameter is not passed, <<d>> when
\* registerDevice passes the object it is building.  deviceRef is that
\* object after the call.
addDeviceToGroup(devs, grps, deviceId, groupName, device, t) ==
    IF ~validateGroupName(groupName)
    THEN Outcome(devs, grps, "InvalidGroupName") @@ [deviceRef |-> device]
    ELSE LET grps1 == IF groupName \notin DOMAIN grps
                      THEN createGroup(devs, grps, groupName).groups
                      ELSE grps
         IN  IF device = <<>> /\ getDevice(devs, deviceId) # "ok"
             THEN Outcome(devs, grps1, "NotFound") @@ [deviceRef |-> device]
             ELSE LET deviceRef == IF device # <<>> THEN device[1] ELSE devs[deviceId]
                      grps2 == [grps1 EXCEPT ![groupName] = @ \cup {deviceId}]
                  IN  IF ~Includes(deviceRef.groups, groupName)
                      THEN LET d2 == [deviceRef EXCEPT !.groups = Append(@, groupName),
                                                       !.updatedAt = t]
                           IN  Outcome(MapSet(devs, deviceId, d2), grps2, "true")
                                  @@ [deviceRef |-> <<d2>>]
                      ELSE Outcome(devs, grps2, "true") @@ [deviceRef |-> <<deviceRef>>]

\* for (const groupName of groups) this.addDeviceToGroup(id, groupName, device)
\* A throw ends the loop.
RECURSIVE registerLoop(_, _, _, _, _, _)
registerLoop(devs, grps, id, groupList, device, t) ==
    IF groupList = <<>>
    THEN Outcome(devs, grps, "ok") @@ [deviceRef |-> <<device>>]
    ELSE LET r == addDeviceToGroup(devs, grps, id, Head(groupList), <<device>>, t)
         IN  IF r.result # "true" THEN r
             ELSE registerLoop(r.devices, r.groups, id, Tail(groupList), r.deviceRef[1], t)

\* registerDevice without the "already exists" check
registerDevice_overwrite(devs, grps, id, name, type, config, groupList, t) ==
    IF ~validateDeviceId(id) THEN Outcome(devs, grps, "InvalidId")
    ELSE IF ~validateDeviceConfig(config) THEN Outcome(devs, grps, "InvalidConfig")
    ELSE LET device == [id |-> id, name |-> name, type |-> type, groups |-> <<>>,
                        config |-> config, createdAt |-> t, updatedAt |-> t]
             r == registerLoop(devs, grps, id, groupList, device, t)
         IN  IF r.result # "ok" THEN Outcome(r.devices, r.groups, r.result)
             ELSE Outcome(MapSet(r.devices, id, r.deviceRef[1]), r.groups, "ok")

registerDevice(devs, grps, id, name, type, config, groupList, t) ==
    IF ~validateDeviceId(id) THEN Outcome(devs, grps, "InvalidId")
    ELSE IF id \in DOMAIN devs THEN Outcome(devs, grps, "AlreadyExists")
    ELSE IF ~validateDeviceConfig(config) THEN Outcome(devs, grps, "InvalidConfig")
    ELSE LET device == [id |-> id, name |-> name, type |-> type, groups |-> <<>>,
                        config |-> config, createdAt |-> t, updatedAt |-> t]
             r == registerLoop(devs, grps, id, groupList, device, t)
         IN  IF r.result # "ok" THEN Outcome(r.devices, r.groups, r.result)
             ELSE Outcome(MapSet(r.devices, id, r.deviceRef[1]), r.groups, "ok")

\* updateDevice as Object.assign(device, updates)
updateDevice_assignAll(devs, grps, id, updates, t) ==
    IF id \notin DOMAIN devs THEN Outcome(devs, grps, "NotFound")
    ELSE Outcome(MapSet(devs, id, Spread(Spread(devs[id], updates), [updatedAt |-> t])),
                 grps, "ok")

\* updateDevice that replaces the configuration by the one supplied
updateDevice_replaceConfig(devs, grps, id, updates, t) ==
    IF getDevice(devs, id) # "ok" THEN Outcome(devs, grps, "NotFound")
    ELSE LET d0 == devs[id]
             d1 == IF "name" \in DOMAIN updates /\ updates.name # ""
                   THEN [d0 EXCEPT !.name = updates.name] ELSE d0
             d2 == IF "type" \in DOMAIN updates /\ updates.type # ""
                   THEN [d1 EXCEPT !.type = updates.type] ELSE d1
         IN  IF "config" \in DOMAIN updates /\ ~validateDeviceConfig(updates.config)
             THEN Outcome(MapSet(devs, id, d2), grps, "InvalidConfig")
             ELSE LET d3 == IF "config" \in DOMAIN updates
                            THEN [d2 EXCEPT !.config = updates.config]
                            ELSE d2
                  IN  Outcome(MapSet(devs, id, [d3 EXCEPT !.updatedAt = t]), grps, "ok")

\* The fields are assigned to the stored object one after the other, so the
\* assignments made before a throw stay.
updateDevice(devs, grps, id, updates, t) ==
    IF getDevice(devs, id) # "ok" THEN Outcome(devs, grps, "NotFound")
    ELSE LET d0 == devs[id]
             d1 == IF "name" \in DOMAIN updates /\ updates.name # ""
                   THEN [d0 EXCEPT !.name = updates.name] ELSE d0
             d2 == IF "type" \in DOMAIN updates /\ updates.type # ""
                   THEN [d1 EXCEPT !.type = updates.type] ELSE d1
         IN  IF "config" \in DOMAIN updates /\ ~validateDeviceConfig(updates.config)
             THEN Outcome(MapSet(devs, id, d2), grps, "InvalidConfig")
             ELSE LET d3 == IF "config" \in DOMAIN updates
                            THEN [d2 EXCEPT !.config = Spread(@, updates.config)]
                            ELSE d2
                  IN  Outcome(MapSet(devs, id, [d3 EXCEPT !.updatedAt = t]), grps, "ok")

\* updateDeviceStatus that creates the entry of an unknown id
updateDeviceStatus_upsert(devs, grps, id, status, t) ==
    Outcome(MapSet(devs, id,
                   IF id \in DOMAIN devs
                   THEN Spread(devs[id], [status |-> status, updatedAt |-> t])
                   ELSE [id |-> id, status |-> status, updatedAt |-> t]),
            grps, "ok")

updateDeviceStatus(devs, grps, id, status, t) ==
    IF getDevice(devs, id) # "ok" THEN Outcome(devs, grps, "NotFound")
    ELSE Outcome(MapSet(devs, id,
                        Spread(devs[id], [status |-> status, updatedAt |-> t])),
                 grps, "ok")

\* removeDevice that leaves the group member sets alone
removeDevice_noPurge(devs, grps, id) ==
    IF ~(id \in DOMAIN devs) THEN Outcome(devs, grps, "false")
    ELSE Outcome(MapDelete(devs, id), grps, "true")

\* for (const groupName of device.groups) this.groups.get(groupName)?.delete(id)
removeDevice(devs, grps, id) ==
    IF ~(id \in DOMAIN devs) THEN Outcome(devs, grps, "false")
    ELSE LET device == devs[id]
             grps1 == [g \in DOMAIN grps |->
                          IF Includes(device.groups, g) THEN grps[g] \ {id} ELSE grps[g]]
         IN  Outcome(MapDelete(devs, id), grps1, "true")

\* removeDeviceFromGroup that leaves the list of the device as it is
removeDeviceFromGroup_oneWay(devs, grps, deviceId, groupName, t) ==
    IF groupName \notin DOMAIN grps THEN Outcome(devs, grps, "GroupNotFound")
    ELSE LET removed == deviceId \in grps[groupName]
         IN  Outcome(devs, [grps EXCEPT ![groupName] = @ \ {deviceId}],
                     IF removed THEN "true" ELSE "false")

removeDeviceFromGroup(devs, grps, deviceId, groupName, t) ==
    IF groupName \notin DOMAIN grps THEN Outcome(devs, grps, "GroupNotFound")
    ELSE LET removed == deviceId \in grps[groupName]
             grps1 == [grps EXCEPT ![groupName] = @ \ {deviceId}]
         IN  IF removed /\ deviceId \in DOMAIN devs
             THEN Outcome([devs EXCEPT ![deviceId].groups = FilterOut(@, groupName),
                                       ![deviceId].updatedAt = t],
                          grps1, "true")
             ELSE Outcome(devs, grps1, IF removed THEN "true" ELSE "false")

\* removeGroup that does not strip the name from its members
removeGroup_noStrip(devs, grps, name, t) ==
    IF name \notin DOMAIN grps THEN Outcome(devs, grps, "false")
    ELSE Outcome(devs, MapDelete(grps, name), "true")

\* removeGroup that empties the list of groups of every member
removeGroup_clearGroups(devs, grps, name, t) ==
    IF name \notin DOMAIN grps THEN Outcome(devs, grps, "false")
    ELSE LET devs1 == [id \in DOMAIN devs |->
                          IF id \in grps[name]
                          THEN [devs[id] EXCEPT !.groups = <<>>, !.updatedAt = t]
                          ELSE devs[id]]
         IN  Outcome(devs1, MapDelete(grps, name), "true")

removeGroup(devs, grps, name, t) ==
    IF name \notin DOMAIN grps THEN Outcome(devs, grps, "false")
    ELSE LET devs1 == [id \in DOMAIN devs |->
                          IF id \in grps[name]
                          THEN [devs[id] EXCEPT !.groups = FilterOut(@, name),
                                                !.updatedAt = t]
                          ELSE devs[id]]
         IN  Outcome(devs1, MapDelete(grps, name), "true")

\* The two queries return the outcome and, when it is "ok", the value.
\* getDeviceIdsInGroup that takes an unknown group for an empty one
getDeviceIdsInGroup_empty(grps, groupName) ==
    IF groupName \notin DOMAIN grps THEN [result |-> "ok", value |-> {}]
    ELSE [result |-> "ok", value |-> grps[groupName]]

getDeviceIdsInGroup(grps, groupName) ==
    IF groupName \notin DOMAIN grps THEN [result |-> "GroupNotFound"]
    ELSE [result |-> "ok", value |-> grps[groupName]]

getDevicesInGroup(devs, grps, groupName) ==
    IF groupName \notin DOMAIN grps THEN [result |-> "GroupNotFound"]
    ELSE [result |-> "ok", value |-> {devs[id] : id \in grps[groupName] \cap DOMAIN devs}]

----------------------------------------------------------------------------
(* Inputs *)

Dev1 == <<"d", "v", "1">>
Dev2 == <<"d", "v", "2">>
BadId == <<"d", "1">>                 \* too short for validateDeviceId
DeviceIdInputs == {Dev1, Dev2, BadId}

Grp1 == <<"g", "1">>
Grp2 == <<"g", " ", "2">>
BadGroup == <<"g", "_">>              \* "_" is not allowed in a group name
GroupNameInputs == {Grp1, Grp2, BadGroup}

GroupListInputs ==
    {<<>>, <<Grp1>>, <<Grp2>>, <<Grp1, Grp2>>, <<Grp1, BadGroup>>, <<BadGroup, Grp1>>}

ConfigInputs == {<<>>, [reportingInterval |-> 0]}

UpdateInputs ==
    {[name |-> "n2"],
     [name |-> "n2", config |-> [sleepThreshold |-> 101]]}

Online(id, t) == [deviceId |-> id, batteryLevel |-> 80, powerMode |-> "normal",
                  connectionStatus |-> "online", lastSeen |-> t]

Call(op, args, result) == [op |-> op, args |-> args, result |-> result]

\* a slot of calls that follows no call
NoCall == [kind |-> "none"]

\* the call has settled and none of its publishes is outstanding
IsOver(call) ==
    IF call.kind = "none" THEN TRUE ELSE call.outcome # "pending" /\ call.inflight = {}

\* a call that is over is shown by the step that ended it and then dropped
Forget(cs) == [c \in DOMAIN cs |-> IF IsOver(cs[c]) THEN NoCall ELSE cs[c]]

\* no command is sent by this step
NoCommand == published' = <<>> /\ calls' = Forget(calls)

Event(name, id) == [name |-> name, id |-> id]

----------------------------------------------------------------------------
(* Initial state: new EnergyManager(), new DeviceRegistry() *)

DefaultPrefix == <<"d", "e", "v", "i", "c", "e", "/">>

Init ==
    /\ devices = <<>>
    /\ groups = <<>>
    /\ now = 0
    /\ mqtt = [client |-> FALSE, isConnected |-> FALSE]
    /\ topicPrefix = DefaultPrefix
    /\ statusCheckInterval = FALSE
    /\ timers = 0
    /\ subscriptions = {}
    /\ silent = {}
    /\ offlineEmits = [id \in {Dev1, Dev2} |-> 0]
    /\ emitted = <<>>
    /\ calls = [c \in 1..MaxCalls |-> NoCall]
    /\ published = <<>>
    /\ ret = Call("constructor", <<>>, "ok")

\* Time passes.
Advance ==
    /\ now < MaxNow
    /\ now' = now + 1
    /\ emitted' = <<>>
    /\ ret' = Call("advance", <<>>, "ok")
    /\ NoCommand
    /\ UNCHANGED <<devices, groups, mqtt, topicPrefix, statusCheckInterval, timers, subscriptions, silent, offlineEmits>>

----------------------------------------------------------------------------
(* Direct calls of the DeviceRegistry methods *)

Apply(r, op, args) ==
    /\ devices' = r.devices
    /\ groups' = r.groups
    /\ ret' = Call(op, args, r.result)
    /\ emitted' = <<>>
    /\ NoCommand
    /\ UNCHANGED <<now, mqtt, topicPrefix, statusCheckInterval, timers, subscriptions, silent, offlineEmits>>

Step_registerDevice(id, config, groupList) ==
    Apply(registerDevice(devices, groups, id, "n1", "sensor", config, groupList, now),
          "registerDevice", <<id>>)

Do_registerDevice ==
    \E id \in DeviceIdInputs, config \in ConfigInputs, groupList \in GroupListInputs :
        Step_registerDevice(id, config, groupList)

Do_updateDevice ==
    \E id \in DeviceIdInputs, updates \in UpdateInputs :
        Apply(updateDevice(devices, groups, id, updates, now), "updateDevice", <<id>>)

Do_updateDeviceStatus ==
    \E id \in DeviceIdInputs :
        Apply(updateDeviceStatus(devices, groups, id, Online(id, now), now),
              "updateDeviceStatus", <<id>>)

Do_removeDevice ==
    \E id \in DeviceIdInputs :
        Apply(removeDevice(devices, groups, id), "removeDevice", <<id>>)

Do_createGroup ==
    \E name \in GroupNameInputs :
        Apply(createGroup(devices, groups, name), "createGroup", <<name>>)

Do_addDeviceToGroup ==
    \E id \in DeviceIdInputs, name \in GroupNameInputs :
        LET r == addDeviceToGroup(devices, groups, id, name, <<>>, now)
        IN  Apply(Outcome(r.devices, r.groups, r.result), "addDeviceToGroup", <<id, name>>)

Do_removeDeviceFromGroup ==
    \E id \in DeviceIdInputs, name \in GroupNameInputs :
        Apply(removeDeviceFromGroup(devices, groups, id, name, now),
              "removeDeviceFromGroup", <<id, name>>)

Do_removeGroup ==
    \E name \in GroupNameInputs :
        Apply(removeGroup(devices, groups, name, now), "removeGroup", <<name>>)

RegistryAdvance == now < RegistryMaxNow /\ Advance

\* The device table and the group index.
RegistryNext ==
    \/ Do_registerDevice
    \/ Do_removeDevice
    \/ Do_createGroup
    \/ Do_addDeviceToGroup
    \/ Do_removeDeviceFromGroup
    \/ Do_removeGroup
    \/ RegistryAdvance

RegistrySpec == Init /\ [][RegistryNext]_vars

\* The life of a device entry.
DeviceNext ==
    \/ Do_registerDevice
    \/ Do_updateDevice
    \/ Do_updateDeviceStatus
    \/ Do_removeDevice
    \/ RegistryAdvance

DeviceSpec == Init /\ [][DeviceNext]_vars

----------------------------------------------------------------------------
(* EnergyManager: topics and inbound status reports *)

StatusSuffix == <<"/", "s", "t", "a", "t", "u", "s">>

StartsWith(str, prefix) ==
    Len(str) >= Len(prefix) /\ SubSeq(str, 1, Len(prefix)) = prefix

EndsWith(str, suffix) ==
    Len(str) >= Len(suffix) /\ SubSeq(str, Len(str) - Len(suffix) + 1, Len(str)) = suffix

\* String.prototype.substring(start, end), 0-based, end exclusive; the
\* arguments are swapped when start > end.
Substring(str, start, end) ==
    IF start <= end THEN SubSeq(str, start + 1, end) ELSE SubSeq(str, end + 1, start)

getStatusTopic(prefix, deviceId) == prefix \o deviceId \o StatusSuffix

CommandSuffix == <<"/", "c", "o", "m", "m", "a", "n", "d">>

getCommandTopic(prefix, deviceId) == prefix \o deviceId \o CommandSuffix

\* the extraction that tests and strips the default prefix, not the present one
extractDeviceIdFromStatusTopic_defaultPrefix(prefix, topic) ==
    IF StartsWith(topic, <<"d", "e", "v", "i", "c", "e", "/">>) /\ EndsWith(topic, StatusSuffix)
    THEN Substring(topic, 7, Len(topic) - Len(StatusSuffix))
    ELSE <<>>

\* <<>> is both the null result and the empty id: "if (!deviceId) return"
\* treats them alike.
extractDeviceIdFromStatusTopic(prefix, topic) ==
    IF StartsWith(topic, prefix) /\ EndsWith(topic, StatusSuffix)
    THEN Substring(topic, Len(prefix), Len(topic) - Len(StatusSuffix))
    ELSE <<>>

\* A message is either text that JSON.parse rejects or the text of an object.
Malformed == [wellFormed |-> FALSE]
Json(obj) == [wellFormed |-> TRUE, value |-> obj]

\* JSON.parse that yields {} for text it cannot parse
JSON_parse_lenient(message) ==
    IF message.wellFormed THEN <<message.value>> ELSE << <<>> >>

\* JSON.parse(messageStr): <<value>>, or <<>> when it throws a SyntaxError
JSON_parse(message) ==
    IF message.wellFormed THEN <<message.value>> ELSE <<>>

OnlineReport ==
    Json([connectionStatus |-> "online", batteryLevel |-> 80, powerMode |-> "normal"])

\* what arrives: Dev1 sends every kind of report, Dev2 only well-formed
\* online reports, and one message arrives on a topic that is no status topic
InboundInputs ==
    {<<getStatusTopic(DefaultPrefix, Dev1), message>> :
        message \in {Malformed, OnlineReport,
                     Json([deviceId |-> Dev2, connectionStatus |-> "offline", lastSeen |-> 0]),
                     Json([batteryLevel |-> 60, powerMode |-> "low_power"])}}
      \cup {<<getStatusTopic(DefaultPrefix, Dev2), OnlineReport>>}
      \cup {<<DefaultPrefix \o Dev1 \o <<"/", "c", "o", "m", "m", "a", "n", "d">>, OnlineReport>>}

\* the status built with the lastSeen of the report, or 0, for the time of arrival
mergeStatus_noStamp(deviceId, statusData, timestamp) ==
    Spread(Spread([deviceId |-> deviceId, lastSeen |-> 0], statusData), <<>>)

\* the status the handler builds: { deviceId, ...statusData, lastSeen: timestamp }
mergeStatus(deviceId, statusData, timestamp) ==
    Spread(Spread([deviceId |-> deviceId], statusData), [lastSeen |-> timestamp])

\* the status has connectionStatus === ConnectionStatus.ONLINE
IsOnline(status) ==
    "connectionStatus" \in DOMAIN status /\ status.connectionStatus = "online"

handleIncomingMessage(topic, message) ==
    LET deviceId == extractDeviceIdFromStatusTopic(topicPrefix, topic)
    IN  /\ deviceId \notin silent
        /\ IF deviceId = <<>>
           THEN /\ ret' = Call("handleIncomingMessage", <<deviceId>>, "ignored")
                /\ emitted' = <<>>
                /\ UNCHANGED <<devices, groups, offlineEmits>>
           ELSE IF JSON_parse(message) = <<>>
           THEN /\ ret' = Call("handleIncomingMessage", <<deviceId>>, "parseError")
                /\ emitted' = <<>>
                /\ UNCHANGED <<devices, groups, offlineEmits>>
           ELSE IF hasDevice(devices, deviceId)
           THEN LET statusData == JSON_parse(message)[1]
                    r == updateDeviceStatus(devices, groups, deviceId,
                                            mergeStatus(deviceId, statusData, now), now)
                IN  /\ devices' = r.devices
                    /\ groups' = r.groups
                    /\ emitted' = <<Event("statusUpdate", deviceId)>>
                    /\ offlineEmits' = [offlineEmits EXCEPT ![deviceId] = 0]
                    /\ ret' = Call("handleIncomingMessage", <<deviceId>>, "ok")
           ELSE /\ ret' = Call("handleIncomingMessage", <<deviceId>>, "unregistered")
                /\ emitted' = <<>>
                /\ UNCHANGED <<devices, groups, offlineEmits>>
        /\ NoCommand
        /\ UNCHANGED <<now, mqtt, topicPrefix, statusCheckInterval, timers, subscriptions, silent>>

OnMessage ==
    \E inbound \in InboundInputs : handleIncomingMessage(inbound[1], inbound[2])

----------------------------------------------------------------------------
(* EnergyManager: the periodic sweep *)

\* the staleness test with >= for >
IsStale_geq(device, t, threshold) ==
    /\ "status" \in DOMAIN device
    /\ t - device.status.lastSeen >= threshold
    /\ IsOnline(device.status)

\* the staleness test without the "was online" check
IsStale_noOnlineCheck(device, t, threshold) ==
    /\ "status" \in DOMAIN device
    /\ t - device.status.lastSeen > threshold

\* the staleness test with the subtraction reversed
IsStale_reversed(device, t, threshold) ==
    /\ "status" \in DOMAIN device
    /\ device.status.lastSeen - t > threshold
    /\ IsOnline(device.status)

\* the device has a status that the sweep demotes at time t
IsStale(device, t, threshold) ==
    /\ "status" \in DOMAIN device
    /\ t - device.status.lastSeen > threshold
    /\ IsOnline(device.status)

\* updatedStatus built from scratch instead of from the stored status
offlineStatus_noSpread(status) ==
    [deviceId |-> status.deviceId, connectionStatus |-> "offline",
     lastSeen |-> status.lastSeen]

\* updatedStatus: { ...device.status, connectionStatus: OFFLINE, lastSeen: device.status.lastSeen }
offlineStatus(status) ==
    Spread(status, [connectionStatus |-> "offline", lastSeen |-> status.lastSeen])

\* the number of notifications name(id) in a list of notifications
RECURSIVE Count(_, _)
Count(events, e) ==
    IF events = <<>> THEN 0
    ELSE (IF Head(events) = e THEN 1 ELSE 0) + Count(Tail(events), e)

Min(a, b) == IF a < b THEN a ELSE b

\* the sequences that list every element of S once
Orderings(S) ==
    {ord \in [1..Cardinality(S) -> S] : \A i, j \in 1..Cardinality(S) : ord[i] = ord[j] => i = j}

\* for (const device of devices) { ... }: list holds the ids still to visit,
\* in iteration order; the result is the device table and the notifications
\* emitted.
RECURSIVE sweepLoop(_, _, _, _, _)
sweepLoop(devs, list, t, threshold, out) ==
    IF list = <<>> THEN [devices |-> devs, emitted |-> out]
    ELSE LET device == devs[Head(list)]
         IN  IF IsStale(device, t, threshold)
             THEN LET updatedStatus == offlineStatus(device.status)
                      r == updateDeviceStatus(devs, <<>>, device.id, updatedStatus, t)
                  IN  sweepLoop(r.devices, Tail(list), t, threshold,
                                Append(out, Event("deviceOffline", device.id)))
             ELSE sweepLoop(devs, Tail(list), t, threshold, out)

\* a timer tick: the callback of setInterval runs one pass
checkDevicesStatus ==
    /\ statusCheckInterval
    /\ \E ord \in Orderings(DOMAIN devices) :
          LET r == sweepLoop(devices, ord, now, 2 * statusUpdateInterval, <<>>)
          IN  /\ devices' = r.devices
              /\ emitted' = r.emitted
              /\ offlineEmits' =
                    [id \in DOMAIN offlineEmits |->
                        Min(2, offlineEmits[id] + Count(r.emitted, Event("deviceOffline", id)))]
    /\ ret' = Call("checkDevicesStatus", <<>>, "ok")
    /\ NoCommand
    /\ UNCHANGED <<groups, now, mqtt, topicPrefix, statusCheckInterval, timers, subscriptions, silent>>

----------------------------------------------------------------------------
(* EnergyManager: the public calls *)

isClientConnected == mqtt.isConnected /\ mqtt.client

\* the status topics of the registered devices, the argument of the
\* subscribes that subscribeToAllDeviceStatuses issues
AllStatusTopics(prefix) == {getStatusTopic(prefix, id) : id \in DOMAIN devices}

\* startStatusCheck that sets a new interval without clearing the one it has
startStatusCheck_noClear ==
    /\ statusCheckInterval' = TRUE
    /\ timers' = timers + 1

\* startStatusCheck: the interval it holds is cleared, a new one is set
startStatusCheck ==
    /\ statusCheckInterval' = TRUE
    /\ timers' = (IF statusCheckInterval THEN timers - 1 ELSE timers) + 1

\* stopStatusCheck: the interval it holds is cleared and forgotten
stopStatusCheck ==
    /\ statusCheckInterval' = FALSE
    /\ timers' = IF statusCheckInterval THEN timers - 1 ELSE timers

\* outcome: what the broker does.  "refused": the client reports an error
\* before it connects; "subscribeFails": a subscribe of a status topic is
\* rejected; "ok": everything succeeds.
connect(outcome) ==
    /\ outcome = "subscribeFails" => DOMAIN devices # {}
    /\ IF outcome = "refused"
       THEN /\ mqtt' = [mqtt EXCEPT !.client = TRUE]
            /\ subscriptions' = {}
            /\ emitted' = <<Event("error", <<>>)>>
            /\ ret' = Call("connect", <<>>, "CONNECTION")
            /\ UNCHANGED <<statusCheckInterval, timers>>
       ELSE IF outcome = "subscribeFails"
       THEN /\ mqtt' = [client |-> TRUE, isConnected |-> TRUE]
            /\ subscriptions' = AllStatusTopics(topicPrefix)
            /\ emitted' = <<>>
            /\ ret' = Call("connect", <<>>, "COMMAND_FAILED")
            /\ UNCHANGED <<statusCheckInterval, timers>>
       ELSE /\ mqtt' = [client |-> TRUE, isConnected |-> TRUE]
            /\ subscriptions' = AllStatusTopics(topicPrefix)
            /\ startStatusCheck
            /\ emitted' = <<Event("connected", <<>>)>>
            /\ ret' = Call("connect", <<>>, "ok")
    /\ NoCommand
    /\ UNCHANGED <<devices, groups, now, topicPrefix, silent, offlineEmits>>

\* connect is refused only to a manager that is not connected
Connect ==
    \E outcome \in {"refused", "subscribeFails", "ok"} :
        /\ outcome = "refused" => ~mqtt.isConnected
        /\ connect(outcome)

\* connect at any moment, also a refused one on a manager that is connected:
\* the client of the handler is then a new one that has no subscription
Reconnect == \E outcome \in {"refused", "subscribeFails", "ok"} : connect(outcome)

\* disconnect that stops the status check only once the client has ended
disconnect_stopAfter(outcome) ==
    /\ outcome = "endFails" => mqtt.client
    /\ IF ~mqtt.client
       THEN /\ emitted' = <<Event("disconnected", <<>>)>>
            /\ ret' = Call("disconnect", <<>>, "ok")
            /\ stopStatusCheck
            /\ UNCHANGED <<mqtt, subscriptions>>
       ELSE IF outcome = "endFails"
       THEN /\ emitted' = <<>>
            /\ ret' = Call("disconnect", <<>>, "CONNECTION")
            /\ UNCHANGED <<mqtt, subscriptions, statusCheckInterval, timers>>
       ELSE /\ mqtt' = [client |-> FALSE, isConnected |-> FALSE]
            /\ subscriptions' = {}
            /\ stopStatusCheck
            /\ emitted' = <<Event("disconnected", <<>>)>>
            /\ ret' = Call("disconnect", <<>>, "ok")
    /\ NoCommand
    /\ UNCHANGED <<devices, groups, now, topicPrefix, silent, offlineEmits>>

\* outcome: whether client.end reports an error
disconnect(outcome) ==
    /\ outcome = "endFails" => mqtt.client
    /\ stopStatusCheck
    /\ IF ~mqtt.client
       THEN /\ emitted' = <<Event("disconnected", <<>>)>>
            /\ ret' = Call("disconnect", <<>>, "ok")
            /\ UNCHANGED <<mqtt, subscriptions>>
       ELSE IF outcome = "endFails"
       THEN /\ emitted' = <<>>
            /\ ret' = Call("disconnect", <<>>, "CONNECTION")
            /\ UNCHANGED <<mqtt, subscriptions>>
       ELSE /\ mqtt' = [client |-> FALSE, isConnected |-> FALSE]
            /\ subscriptions' = {}
            /\ emitted' = <<Event("disconnected", <<>>)>>
            /\ ret' = Call("disconnect", <<>>, "ok")
    /\ NoCommand
    /\ UNCHANGED <<devices, groups, now, topicPrefix, silent, offlineEmits>>

Disconnect == \E outcome \in {"ok", "endFails"} : disconnect(outcome)

\* mqtt.subscribe(topic): the client is asked only while connected
subscribe(topic) ==
    subscriptions' = IF isClientConnected THEN subscriptions \cup {topic} ELSE subscriptions

\* mqtt.unsubscribe(topic): the client is asked only while connected
unsubscribe(topic) ==
    subscriptions' = IF isClientConnected THEN subscriptions \ {topic} ELSE subscriptions

ApplyAndEmit(r, op, args, events) ==
    /\ devices' = r.devices
    /\ groups' = r.groups
    /\ ret' = Call(op, args, r.result)
    /\ emitted' = events
    /\ NoCommand
    /\ UNCHANGED <<now, mqtt, topicPrefix, statusCheckInterval, timers, silent>>

\* updates that also carry a status, which Partial<Omit<Device, 'id' | 'createdAt'>> allows
ManagerUpdateInputs ==
    {[name |-> "n1", status |-> [deviceId |-> <<>>, connectionStatus |-> c, lastSeen |-> 0]] :
        c \in {"online", "offline"}}

EnergyManager_registerDevice ==
    \E id \in {Dev1, Dev2} :
        LET r == registerDevice(devices, groups, id, "n1", "sensor", <<>>, <<>>, now)
        IN  /\ ApplyAndEmit(r, "registerDevice", <<id>>,
                            IF r.result = "ok" THEN <<Event("deviceRegistered", id)>> ELSE <<>>)
            /\ IF r.result = "ok"
               THEN subscribe(getStatusTopic(topicPrefix, id))
               ELSE UNCHANGED subscriptions
            /\ UNCHANGED offlineEmits

EnergyManager_updateDevice ==
    \E id \in {Dev1}, updates \in ManagerUpdateInputs :
        LET r == updateDevice(devices, groups, id, updates, now)
        IN  /\ ApplyAndEmit(r, "updateDevice", <<id>>,
                            IF r.result = "ok" THEN <<Event("deviceUpdated", id)>> ELSE <<>>)
            /\ UNCHANGED <<offlineEmits, subscriptions>>

\* createGroup, addDeviceToGroup and removeDeviceFromGroup of the manager
\* hand their arguments to the registry
EnergyManager_createGroup ==
    \E name \in {Grp2} :
        Apply(createGroup(devices, groups, name), "createGroup", <<name>>)

EnergyManager_addDeviceToGroup ==
    \E deviceId \in {Dev1, Dev2}, groupName \in {Grp1} :
        LET r == addDeviceToGroup(devices, groups, deviceId, groupName, <<>>, now)
        IN  Apply(Outcome(r.devices, r.groups, r.result), "addDeviceToGroup",
                  <<deviceId, groupName>>)

EnergyManager_removeDeviceFromGroup ==
    \E deviceId \in {Dev1}, groupName \in {Grp1, Grp2} :
        Apply(removeDeviceFromGroup(devices, groups, deviceId, groupName, now),
              "removeDeviceFromGroup", <<deviceId, groupName>>)

EnergyManager_removeDevice ==
    \E id \in {Dev1, Dev2} :
        LET r == removeDevice(devices, groups, id)
        IN  /\ ApplyAndEmit(r, "removeDevice", <<id>>,
                            IF r.result = "true" THEN <<Event("deviceRemoved", id)>> ELSE <<>>)
            /\ unsubscribe(getStatusTopic(topicPrefix, id))
            /\ offlineEmits' = IF r.result = "true"
                               THEN [offlineEmits EXCEPT ![id] = 0]
                               ELSE offlineEmits

\* The manager: API calls, inbound reports, timer ticks, the clock.
ManagerNext ==
    \/ EnergyManager_registerDevice
    \/ EnergyManager_updateDevice
    \/ EnergyManager_removeDevice
    \/ OnMessage
    \/ checkDevicesStatus
    \/ Connect
    \/ Disconnect
    \/ Advance

ManagerSpec == Init /\ [][ManagerNext]_vars

\* the devices that may stop reporting
SilentInputs == {Dev1}

\* The environment: a device stops reporting for good.
StopReporting ==
    /\ \E id \in SilentInputs : id \notin silent /\ silent' = silent \cup {id}
    /\ emitted' = <<>>
    /\ ret' = Call("stopReporting", <<>>, "ok")
    /\ NoCommand
    /\ UNCHANGED <<devices, groups, now, mqtt, topicPrefix, statusCheckInterval, timers, subscriptions, offlineEmits>>

\* the reports of the devices that may stop reporting
OnReport ==
    \E inbound \in InboundInputs :
        /\ extractDeviceIdFromStatusTopic(topicPrefix, inbound[1]) \in SilentInputs
        /\ handleIncomingMessage(inbound[1], inbound[2])

LiveNext ==
    \/ EnergyManager_registerDevice
    \/ EnergyManager_removeDevice
    \/ OnReport
    \/ checkDevicesStatus
    \/ Connect
    \/ Disconnect
    \/ Advance
    \/ StopReporting

\* The timer fires while it is set and the clock does not stop.
LiveSpec ==
    /\ Init
    /\ [][LiveNext]_vars
    /\ WF_vars(checkDevicesStatus)
    /\ WF_vars(Advance)

\* The status check timer across connects and disconnects.
TimerNext ==
    \/ EnergyManager_registerDevice
    \/ OnReport
    \/ checkDevicesStatus
    \/ Connect
    \/ Disconnect
    \/ Advance

TimerSpec == Init /\ [][TimerNext]_vars

\* Groups of devices that have a status.
\* a device registered with a configuration and a group
Full_registerDevice ==
    \E id \in {Dev1, Dev2} :
        Step_registerDevice(id, [reportingInterval |-> 60], <<Grp1>>)

\* updates of one, two and no fields; the third also carries fields that
\* Partial<Omit<Device, 'id' | 'createdAt'>> allows and updateDevice does
\* not read; the last has a configuration that is not valid
FullUpdateInputs ==
    {[name |-> "n2"],
     [type |-> "actuator", config |-> [sleepThreshold |-> 20]],
     [config |-> [reportingInterval |-> 30], groups |-> <<Grp2>>,
      status |-> [deviceId |-> <<>>, connectionStatus |-> "offline", lastSeen |-> 0],
      updatedAt |-> 0],
     [name |-> "", type |-> ""],
     [name |-> "n3", config |-> [sleepThreshold |-> 101]]}

\* the update is kept with the call
Full_updateDevice ==
    \E id \in {Dev1, BadId}, updates \in FullUpdateInputs :
        Apply(updateDevice(devices, groups, id, updates, now), "updateDevice", <<id, updates>>)

Group_updateDeviceStatus ==
    Apply(updateDeviceStatus(devices, groups, Dev1, Online(Dev1, now), now),
          "updateDeviceStatus", <<Dev1>>)

GroupNext ==
    \/ EnergyManager_registerDevice
    \/ Group_updateDeviceStatus
    \/ Do_createGroup
    \/ Do_addDeviceToGroup
    \/ Do_removeDeviceFromGroup
    \/ Do_removeGroup
    \/ RegistryAdvance

GroupSpec == Init /\ [][GroupNext]_vars

\* Updates of devices that have a configuration, a group and a status.
UpdateNext ==
    \/ Full_registerDevice
    \/ Full_updateDevice
    \/ Group_updateDeviceStatus
    \/ RegistryAdvance

UpdateSpec == Init /\ [][UpdateNext]_vars

\* The 'offline' event of the client: the handler clears isConnected and the
\* manager passes the event on as 'disconnected'.
TransportOffline ==
    /\ mqtt.client /\ mqtt.isConnected
    /\ mqtt' = [mqtt EXCEPT !.isConnected = FALSE]
    /\ emitted' = <<Event("disconnected", <<>>)>>
    /\ ret' = Call("offline", <<>>, "ok")
    /\ NoCommand
    /\ UNCHANGED <<devices, groups, now, topicPrefix, statusCheckInterval, timers,
                   subscriptions, silent, offlineEmits>>

\* The 'connect' event of a client that was not connected: the handler sets
\* isConnected; the manager has no listener for it.
TransportConnect ==
    /\ mqtt.client /\ ~mqtt.isConnected
    /\ mqtt' = [mqtt EXCEPT !.isConnected = TRUE]
    /\ emitted' = <<>>
    /\ ret' = Call("transportConnect", <<>>, "ok")
    /\ NoCommand
    /\ UNCHANGED <<devices, groups, now, topicPrefix, statusCheckInterval, timers,
                   subscriptions, silent, offlineEmits>>

PrefixInputs == {<<"x">>, <<"x", "/">>, DefaultPrefix}

setTopicPrefix(prefix) ==
    LET normal == IF EndsWith(prefix, <<"/">>) THEN prefix ELSE prefix \o <<"/">>
        resubscribe == normal # topicPrefix /\ isClientConnected
    IN  /\ topicPrefix' = normal
        /\ subscriptions' = IF resubscribe
                            THEN subscriptions \cup AllStatusTopics(normal)
                            ELSE subscriptions
        /\ emitted' = <<>>
        /\ ret' = Call("setTopicPrefix", <<prefix>>, "ok")
        /\ NoCommand
        /\ UNCHANGED <<devices, groups, now, mqtt, statusCheckInterval, timers, silent,
                       offlineEmits>>

EnergyManager_setTopicPrefix == \E prefix \in PrefixInputs : setTopicPrefix(prefix)

\* what arrives when the prefix changes: well-formed reports on the status
\* and command topics of both prefixes, for a device id, for the empty id and
\* for a topic in which prefix and suffix overlap
RoutingInputs ==
    {<<prefix \o id \o suffix, OnlineReport>> :
        prefix \in {DefaultPrefix, <<"x", "/">>},
        id \in {Dev1, Dev2, <<>>},
        suffix \in {StatusSuffix, CommandSuffix}}
      \cup {<<<<"x">> \o StatusSuffix, OnlineReport>>}

Routing_OnMessage ==
    \E inbound \in RoutingInputs : handleIncomingMessage(inbound[1], inbound[2])

\* Reports on the topics of the present prefix and of another.
RoutingNext ==
    \/ EnergyManager_registerDevice
    \/ EnergyManager_setTopicPrefix
    \/ Routing_OnMessage
    \/ RegistryAdvance

RoutingSpec == Init /\ [][RoutingNext]_vars

\* A pass of the sweep while a listener of deviceOffline calls
\* removeDevice(victim) of the manager.  st holds the registry, the
\* subscriptions and the notifications so far; objs holds the device objects
\* of the array that getAllDevices returned, which updateDeviceStatus changes
\* in place and removeDevice leaves as they are; list holds the ids still to
\* visit.  The result is "NotFound" when updateDeviceStatus throws, which
\* ends the pass.
RECURSIVE sweepLoopListening(_, _, _, _, _, _)
sweepLoopListening(st, objs, list, t, threshold, victim) ==
    IF list = <<>> THEN st @@ [result |-> "ok"]
    ELSE LET device == objs[Head(list)]
         IN  IF IsStale(device, t, threshold)
             THEN LET updatedStatus == offlineStatus(device.status)
                      r == updateDeviceStatus(st.devices, st.groups, device.id,
                                              updatedStatus, t)
                  IN  IF r.result # "ok" THEN st @@ [result |-> r.result]
                      ELSE LET removed == removeDevice(r.devices, r.groups, victim)
                               heard ==
                                  [devices |-> removed.devices,
                                   groups |-> removed.groups,
                                   subscriptions |->
                                      IF isClientConnected
                                      THEN st.subscriptions
                                              \ {getStatusTopic(topicPrefix, victim)}
                                      ELSE st.subscriptions,
                                   emitted |->
                                      Append(st.emitted, Event("deviceOffline", device.id))
                                         \o (IF removed.result = "true"
                                             THEN <<Event("deviceRemoved", victim)>>
                                             ELSE <<>>)]
                           IN  sweepLoopListening(heard,
                                                  MapSet(objs, device.id, r.devices[device.id]),
                                                  Tail(list), t, threshold, victim)
             ELSE sweepLoopListening(st, objs, Tail(list), t, threshold, victim)

\* a timer tick with the listener attached
checkDevicesStatus_listening ==
    /\ statusCheckInterval
    /\ \E ord \in Orderings(DOMAIN devices), victim \in {Dev1, Dev2} :
          LET r == sweepLoopListening([devices |-> devices, groups |-> groups,
                                       subscriptions |-> subscriptions, emitted |-> <<>>],
                                      devices, ord, now, 2 * statusUpdateInterval, victim)
          IN  /\ devices' = r.devices
              /\ groups' = r.groups
              /\ subscriptions' = r.subscriptions
              /\ emitted' = r.emitted
              /\ offlineEmits' =
                    [id \in DOMAIN offlineEmits |->
                        IF Includes(r.emitted, Event("deviceRemoved", id)) THEN 0
                        ELSE Min(2, offlineEmits[id]
                                       + Count(r.emitted, Event("deviceOffline", id)))]
              /\ ret' = Call("checkDevicesStatus", <<victim>>, r.result)
    /\ NoCommand
    /\ UNCHANGED <<now, mqtt, topicPrefix, statusCheckInterval, timers, silent>>

\* the online reports of both devices
Listening_OnMessage ==
    \E id \in {Dev1, Dev2} :
        handleIncomingMessage(getStatusTopic(topicPrefix, id), OnlineReport)

\* The sweep with a listener that removes devices.
ListeningNext ==
    \/ EnergyManager_registerDevice
    \/ Listening_OnMessage
    \/ Connect
    \/ Advance
    \/ checkDevicesStatus_listening

ListeningSpec == Init /\ [][ListeningNext]_vars

\* A listener of deviceOffline that registers the victim anew when another
\* device goes offline:
\*   (id) => { if (id !== victim && manager.removeDevice(victim))
\*                 manager.registerDevice(victim, 'n1', 'sensor') }
\* st holds the registry, the subscriptions and the notifications so far.
resetListener(st, heard, victim, t) ==
    LET removed == removeDevice(st.devices, st.groups, victim)
        added == registerDevice(removed.devices, removed.groups, victim,
                                "n1", "sensor", <<>>, <<>>, t)
    IN  IF heard = victim \/ removed.result # "true" THEN st
        ELSE [devices |-> added.devices,
              groups |-> added.groups,
              subscriptions |->
                 IF isClientConnected
                 THEN st.subscriptions \cup {getStatusTopic(topicPrefix, victim)}
                 ELSE st.subscriptions,
              emitted |-> st.emitted \o <<Event("deviceRemoved", victim),
                                          Event("deviceRegistered", victim)>>]

\* A pass of the sweep with that listener attached; objs holds the device
\* objects of the array that getAllDevices returned, list the ids still to
\* visit.  updateDeviceStatus(device.id, ...) writes the device that the
\* registry holds under the id at that moment.
RECURSIVE sweepLoopResetting(_, _, _, _, _, _)
sweepLoopResetting(st, objs, list, t, threshold, victim) ==
    IF list = <<>> THEN st @@ [result |-> "ok"]
    ELSE LET device == objs[Head(list)]
         IN  IF IsStale(device, t, threshold)
             THEN LET updatedStatus == offlineStatus(device.status)
                      r == updateDeviceStatus(st.devices, st.groups, device.id,
                                              updatedStatus, t)
                  IN  IF r.result # "ok" THEN st @@ [result |-> r.result]
                      ELSE LET written ==
                                  [st EXCEPT !.devices = r.devices,
                                             !.emitted = Append(st.emitted,
                                                                Event("deviceOffline", device.id))]
                               objs1 == IF objs[device.id] = st.devices[device.id]
                                        THEN MapSet(objs, device.id, r.devices[device.id])
                                        ELSE objs
                           IN  sweepLoopResetting(resetListener(written, device.id, victim, t), objs1,
                                                  Tail(list), t, threshold, victim)
             ELSE sweepLoopResetting(st, objs, Tail(list), t, threshold, victim)

\* a timer tick with the listener attached
checkDevicesStatus_resetting ==
    /\ statusCheckInterval
    /\ \E ord \in Orderings(DOMAIN devices), victim \in {Dev1, Dev2} :
          LET r == sweepLoopResetting([devices |-> devices, groups |-> groups,
                                       subscriptions |-> subscriptions, emitted |-> <<>>],
                                      devices, ord, now, 2 * statusUpdateInterval, victim)
          IN  /\ devices' = r.devices
              /\ groups' = r.groups
              /\ subscriptions' = r.subscriptions
              /\ emitted' = r.emitted
              /\ offlineEmits' =
                    [id \in DOMAIN offlineEmits |->
                        Min(2, (IF Includes(r.emitted, Event("deviceRemoved", id)) THEN 0
                                ELSE offlineEmits[id])
                                  + Count(r.emitted, Event("deviceOffline", id)))]
              /\ ret' = Call("checkDevicesStatus", <<victim>>, r.result)
    /\ NoCommand
    /\ UNCHANGED <<now, mqtt, topicPrefix, statusCheckInterval, timers, silent>>

\* Devices removed and registered anew, by calls and by the listener.
ResidueNext ==
    \/ EnergyManager_registerDevice
    \/ EnergyManager_removeDevice
    \/ EnergyManager_addDeviceToGroup
    \/ Listening_OnMessage
    \/ Connect
    \/ Advance
    \/ checkDevicesStatus_resetting

ResidueSpec == Init /\ [][ResidueNext]_vars

\* Connects, disconnects and the events of the transport, at any moment.
ConnectionNext ==
    \/ EnergyManager_registerDevice
    \/ EnergyManager_removeDevice
    \/ EnergyManager_setTopicPrefix
    \/ Reconnect
    \/ Disconnect
    \/ TransportOffline
    \/ TransportConnect

ConnectionSpec == Init /\ [][ConnectionNext]_vars

\* registerDevice of the manager with a list of groups
Notify_registerDevice ==
    \E id \in {Dev1, Dev2}, groupList \in {<<>>, <<Grp1>>, <<Grp1, BadGroup>>} :
        LET r == registerDevice(devices, groups, id, "n1", "sensor", <<>>, groupList, now)
        IN  /\ ApplyAndEmit(r, "registerDevice", <<id>>,
                            IF r.result = "ok" THEN <<Event("deviceRegistered", id)>> ELSE <<>>)
            /\ IF r.result = "ok"
               THEN subscribe(getStatusTopic(topicPrefix, id))
               ELSE UNCHANGED subscriptions
            /\ UNCHANGED offlineEmits

\* updateDevice of the manager with updates that pass and that fail
Notify_updateDevice ==
    \E id \in {Dev1}, updates \in UpdateInputs :
        LET r == updateDevice(devices, groups, id, updates, now)
        IN  /\ ApplyAndEmit(r, "updateDevice", <<id>>,
                            IF r.result = "ok" THEN <<Event("deviceUpdated", id)>> ELSE <<>>)
            /\ UNCHANGED <<offlineEmits, subscriptions>>

\* The notifications of the calls and reports that change the registry.
NotifyNext ==
    \/ Notify_registerDevice
    \/ Notify_updateDevice
    \/ EnergyManager_removeDevice
    \/ OnMessage

NotifySpec == Init /\ [][NotifyNext]_vars

----------------------------------------------------------------------------
(* EnergyManager: commands.  A call of sendCommand or sendCommandToGroup    *)
(* runs up to its first await in one step; each client.publish it issued   *)
(* completes later in a step of its own, PublishCallback, which also runs   *)
(* the continuations that the completion wakes.  A call is a record:        *)
(*   kind      "device" or "group"                                          *)
(*   target    the device id or the group name                              *)
(*   attempts  the device ids sendCommand was called for, in order          *)
(*   inflight  the device ids whose client.publish has not completed        *)
(*   sent      the device ids for which commandSent was emitted             *)
(*   failed    the rejected member sends, in the order of rejection         *)
(*   outcome   "pending", "ok", or the error the caller's promise rejects   *)
(*             with: NotFound (DEVICE_NOT_FOUND), GroupNotFound             *)
(*             (GROUP_NOT_FOUND), NotConnected (CONNECTION), PublishFailed  *)
(*             and GroupCommandFailed (both COMMAND_FAILED, told apart by   *)
(*             the message)                                                 *)
(*   cause     <<failure>> wrapped by GroupCommandFailed, else <<>>         *)
(*   late      commandSent was emitted after the call had failed            *)



\* publish that asks only whether there is a client
publish_clientOnly(m) ==
    IF ~m.client THEN "NotConnected" ELSE "issued"

\* MqttHandler.publish up to the call of client.publish
publish(m) ==
    IF ~m.client \/ ~m.isConnected THEN "NotConnected" ELSE "issued"

\* publish, subscribe and unsubscribe of the handler called by themselves;
\* published and subscriptions record what the client was asked to do
MqttHandler_publish ==
    \E topic \in {getCommandTopic(topicPrefix, Dev1)} :
        LET r == publish(mqtt)
        IN  /\ published' = IF r = "issued" THEN <<topic>> ELSE <<>>
            /\ ret' = Call("publish", <<topic>>, IF r = "issued" THEN "ok" ELSE "CONNECTION")
            /\ calls' = Forget(calls)
            /\ emitted' = <<>>
            /\ UNCHANGED <<devices, groups, now, mqtt, topicPrefix, statusCheckInterval,
                           timers, subscriptions, silent, offlineEmits>>

MqttHandler_subscribe ==
    \E topic \in {getStatusTopic(topicPrefix, Dev1), getStatusTopic(topicPrefix, Dev2)} :
        /\ subscribe(topic)
        /\ ret' = Call("subscribe", <<topic>>, IF isClientConnected THEN "ok" ELSE "CONNECTION")
        /\ emitted' = <<>>
        /\ NoCommand
        /\ UNCHANGED <<devices, groups, now, mqtt, topicPrefix, statusCheckInterval,
                       timers, silent, offlineEmits>>

MqttHandler_unsubscribe ==
    \E topic \in {getStatusTopic(topicPrefix, Dev1), getStatusTopic(topicPrefix, Dev2)} :
        /\ unsubscribe(topic)
        /\ ret' = Call("unsubscribe", <<topic>>, IF isClientConnected THEN "ok" ELSE "CONNECTION")
        /\ emitted' = <<>>
        /\ NoCommand
        /\ UNCHANGED <<devices, groups, now, mqtt, topicPrefix, statusCheckInterval,
                       timers, silent, offlineEmits>>

\* The handler: its calls and the events of its client, at any moment.
HandlerNext ==
    \/ EnergyManager_registerDevice
    \/ Reconnect
    \/ Disconnect
    \/ TransportOffline
    \/ TransportConnect
    \/ MqttHandler_publish
    \/ MqttHandler_subscribe
    \/ MqttHandler_unsubscribe

HandlerSpec == Init /\ [][HandlerNext]_vars

\* sendCommand with the two checks in the other order
sendCommand_connectionFirst(deviceId) ==
    IF ~isClientConnected THEN "NotConnected"
    ELSE IF ~hasDevice(devices, deviceId) THEN "NotFound"
    ELSE publish(mqtt)

\* sendCommand up to "await this.mqtt.publish(...)": the error thrown, or
\* "issued" when client.publish was called
sendCommand(deviceId) ==
    IF ~hasDevice(devices, deviceId) THEN "NotFound"
    ELSE IF ~isClientConnected THEN "NotConnected"
    ELSE publish(mqtt)

Failure(deviceId, error) == [deviceId |-> deviceId, error |-> error]

NewCall(kind, target) ==
    [kind |-> kind, target |-> target, attempts |-> <<>>, inflight |-> {}, sent |-> {},
     failed |-> <<>>, outcome |-> "pending", cause |-> <<>>, late |-> FALSE]

\* one sendCommand(deviceId, ...) called on behalf of call; the topics
\* published are collected in call.published
attempt(call, deviceId) ==
    LET r == sendCommand(deviceId)
    IN  IF r = "issued"
        THEN [call EXCEPT !.attempts = Append(@, deviceId),
                          !.inflight = @ \cup {deviceId},
                          !.published = Append(@, getCommandTopic(topicPrefix, deviceId))]
        ELSE [call EXCEPT !.attempts = Append(@, deviceId),
                          !.failed = Append(@, Failure(deviceId, r))]

\* the loop that stops at the first sendCommand that throws
RECURSIVE sendLoop_failFast(_, _)
sendLoop_failFast(call, deviceIds) ==
    IF deviceIds = <<>> \/ call.failed # <<>> THEN call
    ELSE sendLoop_failFast(attempt(call, Head(deviceIds)), Tail(deviceIds))

\* for (const deviceId of deviceIds) promises.push(this.sendCommand(deviceId, ...))
RECURSIVE sendLoop(_, _)
sendLoop(call, deviceIds) ==
    IF deviceIds = <<>> THEN call
    ELSE sendLoop(attempt(call, Head(deviceIds)), Tail(deviceIds))

\* Promise.all that reports the last rejection
promiseAll_last(call) ==
    IF call.outcome # "pending" THEN call
    ELSE IF call.failed # <<>>
    THEN [call EXCEPT !.outcome = "GroupCommandFailed",
                      !.cause = <<call.failed[Len(call.failed)]>>]
    ELSE IF call.inflight = {} THEN [call EXCEPT !.outcome = "ok"]
    ELSE call

\* await Promise.all(promises) and the catch that wraps the error: the
\* aggregate settles once, with the first rejection, or when every member
\* send has resolved
promiseAll(call) ==
    IF call.outcome # "pending" THEN call
    ELSE IF call.failed # <<>>
    THEN [call EXCEPT !.outcome = "GroupCommandFailed", !.cause = <<call.failed[1]>>]
    ELSE IF call.inflight = {} THEN [call EXCEPT !.outcome = "ok"]
    ELSE call

\* a sendCommand whose promise resolves although the publish failed
sendOutcome_swallow(call) ==
    IF call.inflight = {} THEN [call EXCEPT !.outcome = "ok"] ELSE call

\* the promise of a single sendCommand
sendOutcome(call) ==
    IF call.failed # <<>> THEN [call EXCEPT !.outcome = call.failed[1].error]
    ELSE IF call.inflight = {} THEN [call EXCEPT !.outcome = "ok"]
    ELSE call

\* the slot that follows the next call: the first one whose call is over
FreeSlot(c) == IsOver(calls[c]) /\ \A b \in 1..(c - 1) : ~IsOver(calls[b])

Started(call, op, args, c) ==
    /\ calls' = [Forget(calls) EXCEPT ![c] = [k \in DOMAIN call \ {"published"} |-> call[k]]]
    /\ published' = call.published
    /\ emitted' = <<>>
    /\ ret' = Call(op, args, call.outcome)
    /\ UNCHANGED <<devices, groups, now, mqtt, topicPrefix, statusCheckInterval, timers, subscriptions, silent,
                   offlineEmits>>

EnergyManager_sendCommand ==
    \E deviceId \in {Dev1, Dev2}, c \in 1..MaxCalls :
        /\ FreeSlot(c)
        /\ Started(sendOutcome(attempt(NewCall("device", deviceId) @@ [published |-> <<>>],
                                       deviceId)),
                   "sendCommand", <<deviceId, c>>, c)

\* sendCommandToGroup that tests the connection before it looks at the group
sendCommandToGroup_connectionFirst(groupName, c) ==
    LET deviceIds == getDeviceIdsInGroup(groups, groupName)
        call == NewCall("group", groupName) @@ [published |-> <<>>]
    IN  IF ~isClientConnected
        THEN Started([call EXCEPT !.outcome = "NotConnected"],
                     "sendCommandToGroup", <<groupName, c>>, c)
        ELSE IF deviceIds.result # "ok"
        THEN Started([call EXCEPT !.outcome = deviceIds.result],
                     "sendCommandToGroup", <<groupName, c>>, c)
        ELSE \E ord \in Orderings(deviceIds.value) :
                Started(promiseAll(sendLoop(call, ord)), "sendCommandToGroup",
                        <<groupName, c>>, c)

sendCommandToGroup(groupName, c) ==
    LET deviceIds == getDeviceIdsInGroup(groups, groupName)
        call == NewCall("group", groupName) @@ [published |-> <<>>]
    IN  IF deviceIds.result # "ok"
        THEN Started([call EXCEPT !.outcome = deviceIds.result],
                     "sendCommandToGroup", <<groupName, c>>, c)
        ELSE IF deviceIds.value = {}
        THEN Started([call EXCEPT !.outcome = "ok"], "sendCommandToGroup", <<groupName, c>>, c)
        ELSE \E ord \in Orderings(deviceIds.value) :
                Started(promiseAll(sendLoop(call, ord)), "sendCommandToGroup",
                        <<groupName, c>>, c)

EnergyManager_sendCommandToGroup ==
    \E groupName \in {Grp1, Grp2}, c \in 1..MaxCalls :
        FreeSlot(c) /\ sendCommandToGroup(groupName, c)

\* a completion that cancels the other member sends when it fails
publishDone_cancel(call, deviceId, err) ==
    LET done == [call EXCEPT !.inflight = IF err THEN {} ELSE @ \ {deviceId},
                             !.sent = IF err THEN @ ELSE @ \cup {deviceId},
                             !.failed = IF err
                                        THEN Append(@, Failure(deviceId, "PublishFailed"))
                                        ELSE @,
                             !.late = @ \/ (~err /\ call.outcome \notin {"pending", "ok"})]
    IN  [call |-> IF call.kind = "group" THEN promiseAll(done) ELSE sendOutcome(done),
         emitted |-> IF err THEN <<>> ELSE <<Event("commandSent", deviceId)>>]

\* the callback of client.publish for deviceId, with or without an error, and
\* what it wakes: the rest of sendCommand (emit commandSent, or rethrow) and
\* then the promise of the call
publishDone(call, deviceId, err) ==
    LET done == [call EXCEPT !.inflight = @ \ {deviceId},
                             !.sent = IF err THEN @ ELSE @ \cup {deviceId},
                             !.failed = IF err
                                        THEN Append(@, Failure(deviceId, "PublishFailed"))
                                        ELSE @,
                             !.late = @ \/ (~err /\ call.outcome \notin {"pending", "ok"})]
    IN  [call |-> IF call.kind = "group" THEN promiseAll(done) ELSE sendOutcome(done),
         emitted |-> IF err THEN <<>> ELSE <<Event("commandSent", deviceId)>>]

Completion(c, deviceId, err) ==
    LET r == publishDone(calls[c], deviceId, err)
    IN  /\ calls' = [Forget(calls) EXCEPT ![c] = r.call]
        /\ emitted' = r.emitted
        /\ published' = <<>>
        /\ ret' = Call("publishCallback", <<deviceId, c>>, IF err THEN "error" ELSE "ok")
        /\ UNCHANGED <<devices, groups, now, mqtt, topicPrefix, statusCheckInterval, timers, subscriptions, silent,
                       offlineEmits>>

PublishCallback ==
    \E c \in 1..MaxCalls :
        /\ calls[c].kind # "none"
        /\ \E deviceId \in calls[c].inflight, err \in BOOLEAN : Completion(c, deviceId, err)

----------------------------------------------------------------------------
(* EnergyManager: group queries *)

PowerModes == {"normal", "low_power", "sleep", "critical"}

\* the sum of batteryLevel over a set of devices
RECURSIVE batterySum(_)
batterySum(ds) ==
    IF ds = {} THEN 0
    ELSE LET d == CHOOSE x \in ds : TRUE
         IN  d.status.batteryLevel + batterySum(ds \ {d})

RECURSIVE Gcd(_, _)
Gcd(a, b) == IF b = 0 THEN a ELSE Gcd(b, a % b)

\* the quotient a / b of a non-negative and a positive number, kept exact as
\* the fraction in lowest terms
Divide(a, b) == [num |-> a \div Gcd(a, b), den |-> b \div Gcd(a, b)]

\* the number 0 as a quotient
Zero == [num |-> 0, den |-> 1]

\* the average with every member in the denominator
averageBatteryLevel_overTotal(members) ==
    LET withBattery == {d \in members : /\ "status" \in DOMAIN d
                                        /\ "batteryLevel" \in DOMAIN d.status}
    IN  IF Cardinality(members) > 0
        THEN Divide(batterySum(withBattery), Cardinality(members))
        ELSE Zero

\* batteryCount > 0 ? batterySum / batteryCount : 0, the two running over the
\* members whose status has a batteryLevel of type number
averageBatteryLevel(members) ==
    LET withBattery == {d \in members : /\ "status" \in DOMAIN d
                                        /\ "batteryLevel" \in DOMAIN d.status}
        batteryCount == Cardinality(withBattery)
    IN  IF batteryCount > 0
        THEN Divide(batterySum(withBattery), batteryCount)
        ELSE Zero

\* the distribution that counts the power mode of online members only
powerModeDistribution_onlineOnly(members) ==
    [mode \in PowerModes |->
        Cardinality({d \in members : /\ "status" \in DOMAIN d
                                     /\ IsOnline(d.status)
                                     /\ "powerMode" \in DOMAIN d.status
                                     /\ d.status.powerMode = mode})]

\* one counter per power mode, 0 at first, incremented for every member with
\* a status that has a powerMode
powerModeDistribution(members) ==
    [mode \in PowerModes |->
        Cardinality({d \in members : /\ "status" \in DOMAIN d
                                     /\ "powerMode" \in DOMAIN d.status
                                     /\ d.status.powerMode = mode})]

\* getGroupStatistics that leaves the members without a status uncounted
getGroupStatistics_skipNoStatus(devs, grps, groupName) ==
    LET r == getDevicesInGroup(devs, grps, groupName)
    IN  IF r.result # "ok" THEN r
        ELSE LET withStatus == {d \in r.value : "status" \in DOMAIN d}
                 online == {d \in withStatus : IsOnline(d.status)}
             IN  [result |-> "ok",
                  value |->
                     [totalDevices |-> Cardinality(r.value),
                      onlineCount |-> Cardinality(online),
                      offlineCount |-> Cardinality(withStatus \ online),
                      powerModeDistribution |-> powerModeDistribution(r.value),
                      averageBatteryLevel |-> averageBatteryLevel(r.value)]]

getGroupStatistics(devs, grps, groupName) ==
    LET r == getDevicesInGroup(devs, grps, groupName)
    IN  IF r.result # "ok" THEN r
        ELSE LET withStatus == {d \in r.value : "status" \in DOMAIN d}
                 online == {d \in withStatus : IsOnline(d.status)}
             IN  [result |-> "ok",
                  value |->
                     [totalDevices |-> Cardinality(r.value),
                      onlineCount |-> Cardinality(online),
                      offlineCount |-> Cardinality(withStatus \ online)
                                          + Cardinality(r.value \ withStatus),
                      powerModeDistribution |-> powerModeDistribution(r.value),
                      averageBatteryLevel |-> averageBatteryLevel(r.value)]]

\* a call that only reads the registry
Query(op, args, r) ==
    /\ ret' = Call(op, args, r.result) @@ [k \in DOMAIN r \ {"result"} |-> r[k]]
    /\ emitted' = <<>>
    /\ NoCommand
    /\ UNCHANGED <<devices, groups, now, mqtt, topicPrefix, statusCheckInterval, timers, subscriptions, silent,
                   offlineEmits>>

Do_getDevicesInGroup ==
    \E groupName \in {Grp1, Grp2} :
        Query("getDevicesInGroup", <<groupName>>, getDevicesInGroup(devices, groups, groupName))

Do_getDeviceIdsInGroup ==
    \E groupName \in {Grp1, Grp2} :
        Query("getDeviceIdsInGroup", <<groupName>>, getDeviceIdsInGroup(groups, groupName))

Do_getGroupStatistics ==
    \E groupName \in {Grp1, Grp2} :
        Query("getGroupStatistics", <<groupName>>,
              getGroupStatistics(devices, groups, groupName))

\* Commands to single devices.
SendNext ==
    \/ EnergyManager_registerDevice
    \/ EnergyManager_removeDevice
    \/ Connect
    \/ Disconnect
    \/ EnergyManager_sendCommand
    \/ PublishCallback

SendSpec == Init /\ [][SendNext]_vars

\* Commands to groups and group queries; an empty group is one that has
\* lost its members.
CommandNext ==
    \/ EnergyManager_registerDevice
    \/ EnergyManager_removeDevice
    \/ EnergyManager_addDeviceToGroup
    \/ EnergyManager_removeDeviceFromGroup
    \/ Connect
    \/ Disconnect
    \/ EnergyManager_sendCommandToGroup
    \/ PublishCallback
    \/ Do_getDevicesInGroup
    \/ Do_getDeviceIdsInGroup
    \/ Do_getGroupStatistics

CommandSpec == Init /\ [][CommandNext]_vars

\* Group statistics over devices that report.
StatisticsNext ==
    \/ EnergyManager_registerDevice
    \/ EnergyManager_removeDevice
    \/ EnergyManager_createGroup
    \/ EnergyManager_addDeviceToGroup
    \/ EnergyManager_removeDeviceFromGroup
    \/ OnMessage
    \/ Do_getGroupStatistics

StatisticsSpec == Init /\ [][StatisticsNext]_vars

----------------------------------------------------------------------------
(* Properties of the registry *)

\* C1: the device<->group index is consistent in both directions in every
\* reachable state, after failed calls too: a group is in a device's groups
\* exactly when the device's id is in the group's member set, and every
\* member of a group is a registered device.
C1_IndexInvariant ==
    /\ \A g \in DOMAIN groups : groups[g] \subseteq DOMAIN devices
    /\ \A d \in DOMAIN devices : \A g \in GroupNameInputs \cup DOMAIN groups :
          Includes(devices[d].groups, g) <=> (g \in DOMAIN groups /\ d \in groups[g])

\* a call has just failed while a device is a member of a group
C1_Witness ==
    /\ ret.result \in {"InvalidGroupName", "NotFound", "GroupNotFound", "AlreadyExists"}
    /\ \E g \in DOMAIN groups : \E d \in DOMAIN devices :
          d \in groups[g] /\ Includes(devices[d].groups, g)

\* C2: register is all-or-nothing: a failed register leaves the device table
\* and the group index as they were; a successful one leaves the device
\* registered and a member of every requested group.
C2_RegisterAtomic ==
    [][\A id \in DeviceIdInputs, config \in ConfigInputs, groupList \in GroupListInputs :
          Step_registerDevice(id, config, groupList) =>
             IF ret'.result = "ok"
             THEN /\ id \in DOMAIN devices'
                  /\ \A i \in 1..Len(groupList) :
                        groupList[i] \in DOMAIN groups' /\ id \in groups'[groupList[i]]
             ELSE devices' = devices /\ groups' = groups]_vars

\* C3: registering an id that is already present fails with AlreadyExists and
\* changes neither the existing device nor any group.
C3_DuplicateRegister ==
    [][(ret'.op = "registerDevice" /\ ret'.args[1] \in DOMAIN devices) =>
          /\ ret'.result = "AlreadyExists"
          /\ devices' = devices
          /\ groups' = groups]_vars

\* a duplicate registration was refused for a device that is in a group and
\* was changed after its creation
C3_Witness ==
    /\ ret.op = "registerDevice"
    /\ ret.result = "AlreadyExists"
    /\ devices[ret.args[1]].groups # <<>>
    /\ devices[ret.args[1]].updatedAt > devices[ret.args[1]].createdAt

\* C4: after removeDevice(id) returned true, id is in no group's member list
\* (ids or devices) and getDevice(id) throws NotFound.
C4_RemovePurges ==
    (ret.op = "removeDevice" /\ ret.result = "true") =>
        /\ \A g \in DOMAIN groups :
              /\ ret.args[1] \notin getDeviceIdsInGroup(groups, g).value
              /\ \A d \in getDevicesInGroup(devices, groups, g).value : d.id # ret.args[1]
        /\ getDevice(devices, ret.args[1]) = "NotFound"

\* a device was removed while a group with another member exists
C4_Witness ==
    /\ ret.op = "removeDevice"
    /\ ret.result = "true"
    /\ \E g \in DOMAIN groups : groups[g] # {}

\* C5 as stated: updateDevice, updateDeviceStatus and removeDevice all fail
\* with NotFound for an id that is not registered.
C5_AllThrowNotFound ==
    [][(/\ ret'.op \in {"updateDevice", "updateDeviceStatus", "removeDevice"}
        /\ ret'.args[1] \notin DOMAIN devices) =>
          ret'.result = "NotFound"]_vars

\* C5 amended: for an id that is not registered updateDevice and
\* updateDeviceStatus throw NotFound, removeDevice returns false without
\* throwing, and none of the three changes the registry.
C5_NotRegistered ==
    [][(/\ ret'.op \in {"updateDevice", "updateDeviceStatus", "removeDevice"}
        /\ ret'.args[1] \notin DOMAIN devices) =>
          /\ ret'.result = IF ret'.op = "removeDevice" THEN "false" ELSE "NotFound"
          /\ devices' = devices
          /\ groups' = groups]_vars

\* a status update for a removed or never registered id was refused while
\* another device is registered
C5_Witness ==
    /\ ret.op = "updateDeviceStatus"
    /\ ret.result = "NotFound"
    /\ DOMAIN devices # {}

----------------------------------------------------------------------------
(* Properties of the sweep *)

SweepStep == ret'.op = "checkDevicesStatus"

OfflineEvent(id) == Event("deviceOffline", id)

\* C6: one sweep pass demotes exactly the registered devices that have a
\* status with connectionStatus online and now - lastSeen > 2 * T; every other
\* device is left unchanged and raises no deviceOffline.
C6_SweepDemotesExactlyStale ==
    [][SweepStep =>
          /\ DOMAIN devices' = DOMAIN devices
          /\ \A d \in DOMAIN devices :
                IF /\ "status" \in DOMAIN devices[d]
                   /\ "connectionStatus" \in DOMAIN devices[d].status
                   /\ devices[d].status.connectionStatus = "online"
                   /\ now - devices[d].status.lastSeen > 2 * statusUpdateInterval
                THEN /\ devices'[d].status.connectionStatus = "offline"
                     /\ Count(emitted', OfflineEvent(d)) = 1
                ELSE /\ devices'[d] = devices[d]
                     /\ Count(emitted', OfflineEvent(d)) = 0]_vars

\* a pass has demoted one device and left alone an online device whose last
\* report is exactly 2 * T old
C6_Witness ==
    /\ ret.op = "checkDevicesStatus"
    /\ \E d1, d2 \in DOMAIN devices :
          /\ Includes(emitted, OfflineEvent(d1))
          /\ "status" \in DOMAIN devices[d2]
          /\ IsOnline(devices[d2].status)
          /\ now - devices[d2].status.lastSeen = 2 * statusUpdateInterval

\* C7: a demotion changes only connectionStatus, which becomes offline; every
\* other field of the status, lastSeen among them, keeps its value.
C7_DemotionKeepsFields ==
    [][SweepStep =>
          \A d \in DOMAIN devices \cap DOMAIN devices' :
             ("status" \in DOMAIN devices[d] /\ devices'[d] # devices[d]) =>
                /\ DOMAIN devices'[d].status = DOMAIN devices[d].status
                /\ \A k \in DOMAIN devices[d].status \ {"connectionStatus"} :
                      devices'[d].status[k] = devices[d].status[k]
                /\ devices'[d].status.connectionStatus = "offline"]_vars

\* a pass has demoted a device whose status carries a battery level and a
\* lastSeen older than the threshold
C7_Witness ==
    /\ ret.op = "checkDevicesStatus"
    /\ \E d \in DOMAIN devices :
          /\ Includes(emitted, OfflineEvent(d))
          /\ devices[d].status.batteryLevel = 80
          /\ devices[d].status.powerMode = "normal"
          /\ devices[d].status.lastSeen + 2 * statusUpdateInterval < now

\* C8: deviceOffline(id) is emitted once by the pass that turns id from online
\* to offline, by no other step, and at most once between two inbound reports
\* of id.
C8_OfflineOncePerDemotion ==
    [][/\ SweepStep =>
             \A d \in DOMAIN devices :
                Count(emitted', OfflineEvent(d)) =
                   IF /\ "status" \in DOMAIN devices[d]
                      /\ IsOnline(devices[d].status)
                      /\ ~IsOnline(devices'[d].status)
                   THEN 1 ELSE 0
       /\ ~SweepStep => \A d \in {Dev1, Dev2} : Count(emitted', OfflineEvent(d)) = 0
       /\ \A d \in {Dev1, Dev2} : offlineEmits'[d] <= 1]_vars

\* a further pass over a device demoted earlier has emitted nothing
C8_Witness ==
    /\ ret.op = "checkDevicesStatus"
    /\ emitted = <<>>
    /\ \E d \in DOMAIN devices :
          /\ offlineEmits[d] = 1
          /\ devices[d].status.connectionStatus = "offline"

\* the device is registered with an online status, has stopped reporting, and
\* the clock can still pass its threshold
StaleToBe(d) ==
    /\ d \in silent
    /\ d \in DOMAIN devices
    /\ "status" \in DOMAIN devices[d]
    /\ IsOnline(devices[d].status)
    /\ devices[d].status.lastSeen + 2 * statusUpdateInterval < MaxNow

DetectedOffline(d) ==
    /\ d \in DOMAIN devices
    /\ "status" \in DOMAIN devices[d]
    /\ "connectionStatus" \in DOMAIN devices[d].status
    /\ devices[d].status.connectionStatus = "offline"
    /\ Includes(emitted, OfflineEvent(d))

\* C9: a registered online device that has stopped reporting is eventually
\* stored as offline with deviceOffline(id) emitted, unless it is removed or
\* the timer is stopped first.
C9_OfflineDetected ==
    \A d \in SilentInputs :
        StaleToBe(d) ~> (DetectedOffline(d) \/ d \notin DOMAIN devices \/ ~statusCheckInterval)

\* a silent device has just been demoted by a timer tick
C9_Witness ==
    /\ statusCheckInterval
    /\ \E d \in silent : DetectedOffline(d)

\* C10 as stated: a stored connectionStatus leaves online only in a sweep
\* step and goes from offline to online only in an inbound report step for
\* that device.
C10_OnlySweepDemotes ==
    [][\A d \in DOMAIN devices \cap DOMAIN devices' :
          ("status" \in DOMAIN devices[d] /\ "status" \in DOMAIN devices'[d]) =>
             /\ (IsOnline(devices[d].status) /\ ~IsOnline(devices'[d].status)) => SweepStep
             /\ ("connectionStatus" \in DOMAIN devices[d].status
                    /\ devices[d].status.connectionStatus = "offline"
                    /\ IsOnline(devices'[d].status)) =>
                   (ret'.op = "handleIncomingMessage" /\ ret'.args = <<d>>)]_vars

\* C10 amended: a stored connectionStatus leaves online only in a sweep step
\* or in an inbound report step for that device (the merged status records
\* what the payload claims), and goes from offline to online only in an
\* inbound report step for that device.
C10_StatusWriters ==
    [][\A d \in DOMAIN devices \cap DOMAIN devices' :
          ("status" \in DOMAIN devices[d] /\ "status" \in DOMAIN devices'[d]) =>
             /\ (IsOnline(devices[d].status) /\ ~IsOnline(devices'[d].status)) =>
                   (SweepStep \/ (ret'.op = "handleIncomingMessage" /\ ret'.args = <<d>>))
             /\ ("connectionStatus" \in DOMAIN devices[d].status
                    /\ devices[d].status.connectionStatus = "offline"
                    /\ IsOnline(devices'[d].status)) =>
                   (ret'.op = "handleIncomingMessage" /\ ret'.args = <<d>>)]_vars

\* a report has just been merged as online while a device demoted by the
\* sweep is stored
C10_Witness ==
    /\ ret.op = "handleIncomingMessage"
    /\ ret.result = "ok"
    /\ IsOnline(devices[ret.args[1]].status)
    /\ \E d \in DOMAIN devices : offlineEmits[d] = 1

----------------------------------------------------------------------------
(* Properties of the inbound reports *)

\* the id that a topic names under the current prefix
TopicId(topic) == extractDeviceIdFromStatusTopic(topicPrefix, topic)

\* C11: a message on a status topic whose payload is malformed JSON, or whose
\* device id is not registered, emits no notification, changes neither the
\* devices nor the groups and ends without a thrown error; reports of the
\* registered devices are still merged afterwards.
C11_BadReportDropped ==
    /\ [][\A inbound \in InboundInputs :
             (/\ ret'.op = "handleIncomingMessage"
              /\ TopicId(inbound[1]) # <<>>
              /\ (~inbound[2].wellFormed \/ TopicId(inbound[1]) \notin DOMAIN devices)
              /\ handleIncomingMessage(inbound[1], inbound[2])) =>
                /\ emitted' = <<>>
                /\ devices' = devices
                /\ groups' = groups
                /\ ret'.result \in {"parseError", "unregistered"}]_vars
    /\ [](ret.result \in {"parseError", "unregistered"} =>
             \A d \in DOMAIN devices :
                ENABLED (/\ handleIncomingMessage(getStatusTopic(topicPrefix, d), OnlineReport)
                         /\ emitted' = <<Event("statusUpdate", d)>>
                         /\ IsOnline(devices'[d].status)))

\* a malformed report of a registered device has just been dropped while the
\* device holds a status
C11_Witness ==
    /\ ret.op = "handleIncomingMessage"
    /\ ret.result = "parseError"
    /\ ret.args[1] \in DOMAIN devices
    /\ "status" \in DOMAIN devices[ret.args[1]]

\* C12: merging a well-formed report of a registered device replaces the
\* stored status: its fields are the payload's fields plus deviceId and
\* lastSeen, every payload field other than these two has the payload's value,
\* deviceId is the id of the topic and lastSeen the time of receipt, and
\* exactly one statusUpdate(deviceId) is emitted.
C12_MergeReplaces ==
    [][\A inbound \in InboundInputs :
          (/\ ret'.op = "handleIncomingMessage"
           /\ inbound[2].wellFormed
           /\ TopicId(inbound[1]) \in DOMAIN devices
           /\ handleIncomingMessage(inbound[1], inbound[2])) =>
             LET id == TopicId(inbound[1])
                 payload == inbound[2].value
                 status == devices'[id].status
             IN  /\ DOMAIN status = DOMAIN payload \cup {"deviceId", "lastSeen"}
                 /\ \A k \in DOMAIN payload \ {"deviceId", "lastSeen"} : status[k] = payload[k]
                 /\ status.deviceId = id
                 /\ status.lastSeen = now
                 /\ emitted' = <<Event("statusUpdate", id)>>]_vars

----------------------------------------------------------------------------
(* Properties of the commands *)

CommandSent(id) == Event("commandSent", id)

Range(seq) == {seq[i] : i \in 1..Len(seq)}

\* C13: sendCommand throws NotFound for a device that is not registered,
\* connected or not, and NotConnected for a registered device while the
\* MqttHandler reports disconnected; either way nothing is published, no
\* commandSent is emitted, no publish is outstanding and the registry is as
\* before.
C13_SendCommandRefused ==
    [][\A deviceId \in {Dev1, Dev2} :
          (/\ ret'.op = "sendCommand"
           /\ ret'.args[1] = deviceId
           /\ (deviceId \notin DOMAIN devices \/ ~isClientConnected)) =>
             /\ ret'.result = IF deviceId \notin DOMAIN devices
                              THEN "NotFound" ELSE "NotConnected"
             /\ published' = <<>>
             /\ emitted' = <<>>
             /\ calls'[ret'.args[2]].inflight = {}
             /\ devices' = devices
             /\ groups' = groups]_vars

\* a command for an unregistered device was refused with NotFound while the
\* bus was disconnected and another device was registered
C13_Witness ==
    /\ ret.op = "sendCommand"
    /\ ret.result = "NotFound"
    /\ ~isClientConnected
    /\ DOMAIN devices # {}

\* C14: for a registered device on a connected bus sendCommand publishes once,
\* to {prefix}{deviceId}/command, and emits nothing yet; the completion of
\* that publish publishes nothing more, and either succeeds, emitting
\* commandSent(deviceId) once and resolving the call, or fails, emitting
\* nothing and rejecting the call with the publish error; commandSent is
\* emitted by no other step.
C14_SendCommandPublishesOnce ==
    [][/\ \A deviceId \in {Dev1, Dev2} :
             (/\ ret'.op = "sendCommand"
              /\ ret'.args[1] = deviceId
              /\ deviceId \in DOMAIN devices
              /\ isClientConnected) =>
                /\ published' = <<getCommandTopic(topicPrefix, deviceId)>>
                /\ emitted' = <<>>
                /\ ret'.result = "pending"
                /\ calls'[ret'.args[2]].inflight = {deviceId}
       /\ (ret'.op = "publishCallback" /\ calls[ret'.args[2]].kind = "device") =>
             /\ published' = <<>>
             /\ calls'[ret'.args[2]].inflight = {}
             /\ IF ret'.result = "ok"
                THEN /\ emitted' = <<CommandSent(ret'.args[1])>>
                     /\ calls'[ret'.args[2]].outcome = "ok"
                ELSE /\ emitted' = <<>>
                     /\ calls'[ret'.args[2]].outcome = "PublishFailed"
       /\ \A deviceId \in {Dev1, Dev2} :
             Count(emitted', CommandSent(deviceId)) > 0 =>
                /\ ret'.op = "publishCallback"
                /\ ret'.result = "ok"
                /\ ret'.args[1] = deviceId]_vars

\* the publish of a single command has just failed and the call was rejected
C14_Witness ==
    /\ ret.op = "publishCallback"
    /\ ret.result = "error"
    /\ calls[ret.args[2]].kind = "device"
    /\ calls[ret.args[2]].outcome = "PublishFailed"
    /\ calls[ret.args[2]].sent = {}

\* C15: sendCommandToGroup on an existing group without members resolves
\* without an error, calls sendCommand for nobody, publishes nothing and
\* emits no commandSent, connected or not.
C15_EmptyGroupNoOp ==
    [][\A groupName \in {Grp1, Grp2} :
          (/\ ret'.op = "sendCommandToGroup"
           /\ ret'.args[1] = groupName
           /\ groupName \in DOMAIN groups
           /\ groups[groupName] = {}) =>
             /\ ret'.result = "ok"
             /\ calls'[ret'.args[2]].attempts = <<>>
             /\ published' = <<>>
             /\ emitted' = <<>>]_vars

\* a command to an empty group has resolved while the bus was disconnected
C15_Witness ==
    /\ ret.op = "sendCommandToGroup"
    /\ ret.result = "ok"
    /\ ret.args[1] \in DOMAIN groups
    /\ groups[ret.args[1]] = {}
    /\ ~isClientConnected

\* C16: sendCommandToGroup on a group with members calls sendCommand once for
\* every member of the group at the time of the call, whether or not other
\* members' calls fail, before the call returns; the list of attempts does
\* not change afterwards, so every attempt precedes the outcome.
C16_FireAll ==
    [][/\ \A groupName \in {Grp1, Grp2} :
             (/\ ret'.op = "sendCommandToGroup"
              /\ ret'.args[1] = groupName
              /\ groupName \in DOMAIN groups
              /\ groups[groupName] # {}) =>
                LET call == calls'[ret'.args[2]]
                IN  /\ Len(call.attempts) = Cardinality(groups[groupName])
                    /\ Range(call.attempts) = groups[groupName]
                    /\ \A d \in groups[groupName] :
                          \/ d \in call.inflight
                          \/ \E i \in 1..Len(call.failed) : call.failed[i].deviceId = d
                    /\ ret'.result \in {"pending", "GroupCommandFailed"}
       /\ ret'.op = "publishCallback" =>
             calls'[ret'.args[2]].attempts = calls[ret'.args[2]].attempts]_vars

\* a command to a group of two members has failed at once, both attempts made
C16_Witness ==
    /\ ret.op = "sendCommandToGroup"
    /\ ret.result = "GroupCommandFailed"
    /\ Len(calls[ret.args[2]].attempts) = 2
    /\ Len(calls[ret.args[2]].failed) = 2

\* C17: a sendCommandToGroup on a group with members resolves exactly when
\* every member send has succeeded, and is rejected, once, with
\* GroupCommandFailed exactly when a member send has failed; the error wraps
\* the failure of the member send that failed first.
C17_GroupOutcome ==
    \A c \in 1..MaxCalls :
        (calls[c].kind = "group" /\ calls[c].attempts # <<>>) =>
            /\ calls[c].outcome \in {"pending", "ok", "GroupCommandFailed"}
            /\ (calls[c].outcome = "ok") <=>
                  (calls[c].failed = <<>> /\ calls[c].sent = Range(calls[c].attempts))
            /\ (calls[c].outcome = "GroupCommandFailed") <=> (calls[c].failed # <<>>)
            /\ (calls[c].outcome = "GroupCommandFailed") =>
                  calls[c].cause = <<calls[c].failed[1]>>
            /\ (calls[c].outcome # "GroupCommandFailed") => calls[c].cause = <<>>

\* two member sends of one call have failed
C17_Witness ==
    \E c \in 1..MaxCalls :
        /\ calls[c].kind = "group"
        /\ calls[c].outcome = "GroupCommandFailed"
        /\ Len(calls[c].failed) = 2
        /\ calls[c].failed[1].deviceId # calls[c].failed[2].deviceId

\* C18: the completion of a member's publish removes only that member from
\* the outstanding sends of its call and, when it succeeded, emits
\* commandSent for the member whatever has become of the other members and of
\* the call; no other step ends an outstanding member send.
C18_MembersIndependent ==
    [][/\ ret'.op = "publishCallback" =>
             LET c == ret'.args[2]
                 d == ret'.args[1]
             IN  /\ calls'[c].inflight = calls[c].inflight \ {d}
                 /\ ret'.result = "ok" =>
                       /\ emitted' = <<CommandSent(d)>>
                       /\ calls'[c].sent = calls[c].sent \cup {d}
                 /\ \A b \in 1..MaxCalls : b # c => calls'[b] = Forget(calls)[b]
       /\ ret'.op \notin {"publishCallback", "sendCommand", "sendCommandToGroup"} =>
             calls' = Forget(calls)]_vars

\* commandSent was emitted for a member after the call had been rejected
\* because of another member
C18_Witness ==
    /\ ret.op = "publishCallback"
    /\ ret.result = "ok"
    /\ calls[ret.args[2]].kind = "group"
    /\ calls[ret.args[2]].outcome = "GroupCommandFailed"
    /\ calls[ret.args[2]].late
    /\ emitted = <<CommandSent(ret.args[1])>>

\* the group name among the arguments of a call
GroupArg(call) == IF call.op = "removeDeviceFromGroup" THEN call.args[2] ELSE call.args[1]

\* C19: getDevicesInGroup, getDeviceIdsInGroup, removeDeviceFromGroup,
\* getGroupStatistics and sendCommandToGroup fail with GroupNotFound for a
\* group that does not exist, publish nothing and leave the devices and the
\* groups as they were; the group is not created.
C19_UnknownGroup ==
    [][(/\ ret'.op \in {"getDevicesInGroup", "getDeviceIdsInGroup", "removeDeviceFromGroup",
                        "getGroupStatistics", "sendCommandToGroup"}
        /\ GroupArg(ret') \notin DOMAIN groups) =>
          /\ ret'.result = "GroupNotFound"
          /\ published' = <<>>
          /\ emitted' = <<>>
          /\ devices' = devices
          /\ groups' = groups]_vars

\* a command to a group that does not exist was refused on a connected bus
\* while a device is in another group
C19_Witness ==
    /\ ret.op = "sendCommandToGroup"
    /\ ret.result = "GroupNotFound"
    /\ isClientConnected
    /\ \E g \in DOMAIN groups : groups[g] # {}

----------------------------------------------------------------------------
(* Properties of the group statistics *)

\* the members of group g whose stored status says online
OnlineMembers(g) ==
    {d \in groups[g] : /\ "status" \in DOMAIN devices[d]
                       /\ "connectionStatus" \in DOMAIN devices[d].status
                       /\ devices[d].status.connectionStatus = "online"}

\* C20: for every existing group getGroupStatistics returns totalDevices equal
\* to the number of members, onlineCount equal to the number of members whose
\* stored status has connectionStatus online and offlineCount equal to the
\* number of the other members, so that the two counts add up to totalDevices.
C20_StatisticsCounts ==
    /\ \A g \in DOMAIN groups :
          LET stats == getGroupStatistics(devices, groups, g).value
          IN  /\ stats.totalDevices = Cardinality(groups[g])
              /\ stats.onlineCount = Cardinality(OnlineMembers(g))
              /\ stats.offlineCount = Cardinality(groups[g] \ OnlineMembers(g))
              /\ stats.onlineCount + stats.offlineCount = stats.totalDevices
    /\ (ret.op = "getGroupStatistics" /\ ret.result = "ok") =>
          ret.value = getGroupStatistics(devices, groups, ret.args[1]).value

\* statistics were returned for a group of an online member and a member
\* whose status carries no connectionStatus
C20_Witness ==
    /\ ret.op = "getGroupStatistics"
    /\ ret.result = "ok"
    /\ ret.value.onlineCount = 1
    /\ ret.value.offlineCount = 1
    /\ \E d \in groups[ret.args[1]] :
          "status" \in DOMAIN devices[d] /\ "connectionStatus" \notin DOMAIN devices[d].status

\* the members of group g whose stored status has a batteryLevel
BatteryMembers(g) ==
    {d \in groups[g] : /\ "status" \in DOMAIN devices[d]
                       /\ "batteryLevel" \in DOMAIN devices[d].status}

\* the sum of the stored batteryLevel over a set of device ids
RECURSIVE LevelSum(_)
LevelSum(ids) ==
    IF ids = {} THEN 0
    ELSE LET d == CHOOSE x \in ids : TRUE
         IN  devices[d].status.batteryLevel + LevelSum(ids \ {d})

\* C21: for every existing group the averageBatteryLevel of getGroupStatistics
\* is the arithmetic mean of batteryLevel over exactly the members whose status
\* has a batteryLevel (the average times their number is their sum); the other
\* members are left out of the denominator but counted in totalDevices; the
\* average is 0 when no member has a batteryLevel, the empty group included.
C21_AverageBattery ==
    /\ \A g \in DOMAIN groups :
          LET stats == getGroupStatistics(devices, groups, g).value
              average == stats.averageBatteryLevel
          IN  /\ stats.totalDevices = Cardinality(groups[g])
              /\ average.den > 0
              /\ average.num * Cardinality(BatteryMembers(g))
                    = LevelSum(BatteryMembers(g)) * average.den
              /\ BatteryMembers(g) = {} => average = Zero
    /\ (ret.op = "getGroupStatistics" /\ ret.result = "ok") =>
          ret.value.averageBatteryLevel
             = getGroupStatistics(devices, groups, ret.args[1]).value.averageBatteryLevel

\* statistics were returned for a group of two members of which only one has
\* a batteryLevel
C21_Witness ==
    /\ ret.op = "getGroupStatistics"
    /\ ret.result = "ok"
    /\ ret.value.totalDevices = 2
    /\ Cardinality(BatteryMembers(ret.args[1])) = 1
    /\ ret.value.averageBatteryLevel.num > 0

\* the members of group g whose stored status reports the power mode
ModeMembers(g, mode) ==
    {d \in groups[g] : /\ "status" \in DOMAIN devices[d]
                       /\ "powerMode" \in DOMAIN devices[d].status
                       /\ devices[d].status.powerMode = mode}

\* C22: for every existing group the powerModeDistribution of
\* getGroupStatistics has an entry for each of normal, low_power, sleep and
\* critical, equal to the number of members whose stored status reports that
\* mode; members without status are in no bucket, so the four counts add up to
\* at most totalDevices and are all 0 for an empty group.
C22_PowerModeDistribution ==
    /\ \A g \in DOMAIN groups :
          LET stats == getGroupStatistics(devices, groups, g).value
              dist == stats.powerModeDistribution
          IN  /\ {"normal", "low_power", "sleep", "critical"} \subseteq DOMAIN dist
              /\ \A mode \in {"normal", "low_power", "sleep", "critical"} :
                    /\ dist[mode] = Cardinality(ModeMembers(g, mode))
                    /\ groups[g] = {} => dist[mode] = 0
              /\ dist["normal"] + dist["low_power"] + dist["sleep"] + dist["critical"]
                    <= stats.totalDevices
    /\ (ret.op = "getGroupStatistics" /\ ret.result = "ok") =>
          ret.value.powerModeDistribution
             = getGroupStatistics(devices, groups, ret.args[1]).value.powerModeDistribution

\* statistics were returned for a group of a member without status and a
\* member whose status reports low_power and no connectionStatus
C22_Witness ==
    /\ ret.op = "getGroupStatistics"
    /\ ret.result = "ok"
    /\ ret.value.totalDevices = 2
    /\ ret.value.powerModeDistribution["low_power"] = 1
    /\ ret.value.powerModeDistribution["normal"] = 0
    /\ \E d \in groups[ret.args[1]] : "status" \notin DOMAIN devices[d]

----------------------------------------------------------------------------
(* Properties of the status check timer *)

\* C23: disconnect cancels the sweep timer whatever its outcome; while the
\* timer is cancelled no sweep pass runs, no device is demoted and no
\* deviceOffline is emitted; only a connect that succeeds sets the timer
\* again, and once it is set a sweep pass can run again.
C23_TimerCancelled ==
    /\ [][/\ ret'.op = "disconnect" => ~statusCheckInterval'
          /\ (~statusCheckInterval /\ statusCheckInterval') =>
                (ret'.op = "connect" /\ ret'.result = "ok")
          /\ ~statusCheckInterval =>
                /\ ~SweepStep
                /\ \A d \in DOMAIN devices : ~Includes(emitted', OfflineEvent(d))
                /\ ret'.op \notin {"handleIncomingMessage", "registerDevice"} =>
                      devices' = devices]_vars
    /\ []((ret.op = "connect" /\ ret.result = "ok") =>
             (statusCheckInterval /\ ENABLED checkDevicesStatus))

\* disconnect has returned while a device was due for demotion
C23_Witness ==
    /\ ret.op = "disconnect"
    /\ ~statusCheckInterval
    /\ \E d \in DOMAIN devices : IsStale(devices[d], now, 2 * statusUpdateInterval)

\* the sweep pass that can run now would write device d or emit deviceOffline(d)
SweepWouldDemote(d) ==
    ENABLED (/\ checkDevicesStatus
             /\ (devices'[d] # devices[d] \/ Includes(emitted', OfflineEvent(d))))

----------------------------------------------------------------------------
(* Properties of the group operations *)

\* the number of times x occurs in the list
Occurrences(list, x) == Cardinality({i \in 1..Len(list) : list[i] = x})

\* C25: addDeviceToGroup of a registered device and a valid group name
\* returns true and creates the group when it is absent; afterwards the group
\* is in the list of the device, once, and the id among the members of the
\* group; the same call made again, at any later time, returns true and leaves
\* the device table and the group index as they are.
C25_AddToGroupIdempotent ==
    [][\A d \in DOMAIN devices : \A g \in GroupNameInputs :
          (/\ ret'.op = "addDeviceToGroup"
           /\ ret'.args = <<d, g>>
           /\ validateGroupName(g)) =>
             /\ ret'.result = "true"
             /\ g \in DOMAIN groups'
             /\ d \in groups'[g]
             /\ Occurrences(devices'[d].groups, g) = 1
             /\ g \notin DOMAIN groups => groups'[g] = {d}
             /\ \A t \in now'..MaxNow :
                   LET again == addDeviceToGroup(devices', groups', d, g, <<>>, t)
                   IN  /\ again.result = "true"
                       /\ again.devices = devices'
                       /\ again.groups = groups']_vars

\* addDeviceToGroup has returned true without touching the device, already a
\* member
C25_Witness ==
    /\ ret.op = "addDeviceToGroup"
    /\ ret.result = "true"
    /\ ret.args[1] \in groups[ret.args[2]]
    /\ Includes(devices[ret.args[1]].groups, ret.args[2])
    /\ devices[ret.args[1]].updatedAt < now

\* C26: createGroup with a valid name of no group returns true and creates
\* the group without members; with the name of a group it returns false and
\* leaves the members of every group and every device as they are; with an
\* invalid name it fails with InvalidGroupName and creates nothing.
C26_CreateGroup ==
    [][\A name \in GroupNameInputs :
          (ret'.op = "createGroup" /\ ret'.args = <<name>>) =>
             /\ devices' = devices
             /\ IF ~validateGroupName(name)
                THEN ret'.result = "InvalidGroupName" /\ groups' = groups
                ELSE IF name \in DOMAIN groups
                THEN ret'.result = "false" /\ groups' = groups
                ELSE /\ ret'.result = "true"
                     /\ DOMAIN groups' = DOMAIN groups \cup {name}
                     /\ groups'[name] = {}
                     /\ \A g \in DOMAIN groups : groups'[g] = groups[g]]_vars

\* createGroup has returned false for a group that has a member
C26_Witness ==
    /\ ret.op = "createGroup"
    /\ ret.result = "false"
    /\ groups[ret.args[1]] # {}

\* C27: removeDeviceFromGroup on an existing group returns true if and only
\* if the device was a member before the call; after true the id is no member
\* of the group, the group is not in the list of the device and the group still
\* exists; after false the device table and the group index are unchanged.
C27_RemoveFromGroup ==
    [][\A d \in DeviceIdInputs : \A g \in DOMAIN groups :
          (ret'.op = "removeDeviceFromGroup" /\ ret'.args = <<d, g>>) =>
             /\ ret'.result \in {"true", "false"}
             /\ ret'.result = "true" <=> d \in groups[g]
             /\ ret'.result = "true" =>
                   /\ g \in DOMAIN groups'
                   /\ d \notin groups'[g]
                   /\ d \in DOMAIN devices' => ~Includes(devices'[d].groups, g)
             /\ ret'.result = "false" => (devices' = devices /\ groups' = groups)]_vars

\* removeDeviceFromGroup has returned true and left the group without a member
C27_Witness ==
    /\ ret.op = "removeDeviceFromGroup"
    /\ ret.result = "true"
    /\ groups[ret.args[2]] = {}
    /\ ret.args[1] \in DOMAIN devices

\* C28: removeGroup of an absent group returns false and changes nothing;
\* of a group it returns true, the group is gone, no registered device has the
\* name in its list, every member it had is still registered with its status
\* and its other groups, and the other groups keep their members.
C28_RemoveGroup ==
    [][\A name \in GroupNameInputs :
          (ret'.op = "removeGroup" /\ ret'.args = <<name>>) =>
             IF name \notin DOMAIN groups
             THEN ret'.result = "false" /\ devices' = devices /\ groups' = groups
             ELSE /\ ret'.result = "true"
                  /\ name \notin DOMAIN groups'
                  /\ DOMAIN devices' = DOMAIN devices
                  /\ \A d \in DOMAIN devices' : ~Includes(devices'[d].groups, name)
                  /\ \A d \in groups[name] :
                        /\ d \in DOMAIN devices'
                        /\ devices'[d].groups = FilterOut(devices[d].groups, name)
                        /\ ("status" \in DOMAIN devices[d]) <=> ("status" \in DOMAIN devices'[d])
                        /\ "status" \in DOMAIN devices[d] => devices'[d].status = devices[d].status
                  /\ \A g \in DOMAIN groups \ {name} :
                        g \in DOMAIN groups' /\ groups'[g] = groups[g]]_vars

\* removeGroup has returned true and a device that has a status is still a
\* member of another group
C28_Witness ==
    /\ ret.op = "removeGroup"
    /\ ret.result = "true"
    /\ \E d \in DOMAIN devices :
          /\ "status" \in DOMAIN devices[d]
          /\ devices[d].groups # <<>>
          /\ devices[d].updatedAt > devices[d].status.lastSeen

----------------------------------------------------------------------------
(* Properties of the device entries *)

\* the fields of the record other than those named
Frame(rec, changed) == [k \in DOMAIN rec \ changed |-> rec[k]]

\* C29: an updateDevice that succeeds changes, of the device, only the fields
\* among name, type and config that the update supplies, and updatedAt; the
\* configuration keys that the update does not supply keep their values and
\* those it supplies take the supplied ones; id, createdAt, groups and status
\* are as before even when the update carries groups, status or updatedAt;
\* every other device and every group is unchanged.
C29_UpdateFrame ==
    [][\A id \in DOMAIN devices :
          (/\ ret'.op = "updateDevice"
           /\ ret'.result = "ok"
           /\ ret'.args[1] = id) =>
             LET updates == ret'.args[2]
                 supplied == DOMAIN updates \cap {"name", "type", "config"}
                 before == devices[id]
                 after == devices'[id]
             IN  /\ Frame(after, supplied \cup {"updatedAt"})
                       = Frame(before, supplied \cup {"updatedAt"})
                 /\ DOMAIN after = DOMAIN before
                 /\ after.updatedAt = now
                 /\ "name" \in supplied => after.name \in {before.name, updates.name}
                 /\ "type" \in supplied => after.type \in {before.type, updates.type}
                 /\ "config" \in supplied =>
                       /\ DOMAIN after.config = DOMAIN before.config \cup DOMAIN updates.config
                       /\ \A k \in DOMAIN after.config :
                             after.config[k] = IF k \in DOMAIN updates.config
                                               THEN updates.config[k]
                                               ELSE before.config[k]
                 /\ \A other \in DOMAIN devices \ {id} :
                       other \in DOMAIN devices' /\ devices'[other] = devices[other]
                 /\ DOMAIN devices' = DOMAIN devices
                 /\ groups' = groups]_vars

\* an update that carries a configuration key, groups, a status and updatedAt
\* has succeeded on a device that has another configuration key, a group and
\* a status of its own
C29_Witness ==
    /\ ret.op = "updateDevice"
    /\ ret.result = "ok"
    /\ {"config", "groups", "status", "updatedAt"} \subseteq DOMAIN ret.args[2]
    /\ devices[ret.args[1]].config = [reportingInterval |-> 30, sleepThreshold |-> 20]
    /\ devices[ret.args[1]].groups = <<Grp1>>
    /\ "status" \in DOMAIN devices[ret.args[1]]
    /\ IsOnline(devices[ret.args[1]].status)
    /\ devices[ret.args[1]].updatedAt > 0

\* C30: every registered device has createdAt <= updatedAt; while a device
\* stays registered its createdAt does not change and its updatedAt does not
\* decrease; every step that changes something of the device sets updatedAt
\* to the time of the step.
C30_Timestamps ==
    /\ [](\A d \in DOMAIN devices : devices[d].createdAt <= devices[d].updatedAt)
    /\ [][\A d \in DOMAIN devices \cap DOMAIN devices' :
             /\ devices'[d].createdAt = devices[d].createdAt
             /\ devices'[d].updatedAt >= devices[d].updatedAt
             /\ devices'[d] # devices[d] => devices'[d].updatedAt = now']_vars

----------------------------------------------------------------------------
(* Properties of the notifications *)

\* C31: in every step deviceRegistered(d) is emitted once when d enters the
\* registry and not otherwise, deviceRemoved(d) once when d leaves it, which
\* is when removeDevice returns true, deviceUpdated(d) once when updateDevice
\* of d succeeds and statusUpdate(d) once when a report of d is merged; a call
\* that fails or returns false emits none of them.
C31_Notifications ==
    [][\A d \in {Dev1, Dev2} :
          /\ Count(emitted', Event("deviceRegistered", d))
                = IF d \notin DOMAIN devices /\ d \in DOMAIN devices' THEN 1 ELSE 0
          /\ Count(emitted', Event("deviceRemoved", d))
                = IF d \in DOMAIN devices /\ d \notin DOMAIN devices' THEN 1 ELSE 0
          /\ (d \in DOMAIN devices /\ d \notin DOMAIN devices') <=>
                (ret'.op = "removeDevice" /\ ret'.result = "true" /\ ret'.args = <<d>>)
          /\ Count(emitted', Event("deviceUpdated", d))
                = IF ret'.op = "updateDevice" /\ ret'.result = "ok" /\ ret'.args = <<d>>
                  THEN 1 ELSE 0
          /\ Count(emitted', Event("statusUpdate", d))
                = IF /\ ret'.op = "handleIncomingMessage"
                     /\ ret'.result = "ok"
                     /\ ret'.args = <<d>>
                  THEN 1 ELSE 0
          /\ ret'.result \notin {"ok", "true"} => emitted' = <<>>]_vars

----------------------------------------------------------------------------
(* Properties of the calls that fail *)

\* C33: an updateDevice that fails with InvalidConfig leaves the stored
\* device, its name, type, config and updatedAt, as it was before the call,
\* whatever name or type the update supplies.
C33_FailedUpdateUnchanged ==
    [][(ret'.op = "updateDevice" /\ ret'.result = "InvalidConfig") =>
          /\ DOMAIN devices' = DOMAIN devices
          /\ \A d \in DOMAIN devices :
                /\ devices'[d].name = devices[d].name
                /\ devices'[d].type = devices[d].type
                /\ devices'[d].config = devices[d].config
                /\ devices'[d].updatedAt = devices[d].updatedAt]_vars

\* C34: an addDeviceToGroup that fails with InvalidGroupName or NotFound
\* leaves the existing groups, the members of every group and every device as
\* they were; a group that did not exist is not created.
C34_FailedAddUnchanged ==
    [][(/\ ret'.op = "addDeviceToGroup"
        /\ ret'.result \in {"InvalidGroupName", "NotFound"}) =>
          /\ DOMAIN groups' = DOMAIN groups
          /\ groups' = groups
          /\ devices' = devices]_vars

----------------------------------------------------------------------------
(* Properties of the topics *)

\* C32: a report on topic t changes the registry only if t is the status
\* topic, under the present prefix, of a registered device, and then only the
\* status and updatedAt of that device change; a report on any other topic
\* changes nothing and emits nothing.  The id extracted from the status topic
\* built for an id is that id, and nothing is extracted from a command topic.
C32_StatusRouting ==
    /\ [][\A inbound \in RoutingInputs :
             (/\ ret'.op = "handleIncomingMessage"
              /\ handleIncomingMessage(inbound[1], inbound[2])) =>
                IF \E id \in DOMAIN devices : inbound[1] = topicPrefix \o id \o StatusSuffix
                THEN LET id == CHOOSE id \in DOMAIN devices :
                                  inbound[1] = topicPrefix \o id \o StatusSuffix
                     IN  /\ groups' = groups
                         /\ DOMAIN devices' = DOMAIN devices
                         /\ \A other \in DOMAIN devices \ {id} : devices'[other] = devices[other]
                         /\ Frame(devices'[id], {"status", "updatedAt"})
                               = Frame(devices[id], {"status", "updatedAt"})
                ELSE /\ devices' = devices
                     /\ groups' = groups
                     /\ emitted' = <<>>]_vars
    /\ [](\A id \in DeviceIdInputs :
             /\ extractDeviceIdFromStatusTopic(topicPrefix, getStatusTopic(topicPrefix, id)) = id
             /\ extractDeviceIdFromStatusTopic(topicPrefix, getCommandTopic(topicPrefix, id))
                   = <<>>)

\* a report on the status topic of a registered device under a prefix that
\* is no longer the present one has been ignored
C32_Witness ==
    /\ ret.op = "handleIncomingMessage"
    /\ ret.result = "ignored"
    /\ topicPrefix # DefaultPrefix
    /\ DOMAIN devices # {}
    /\ \A d \in DOMAIN devices : "status" \in DOMAIN devices[d]

----------------------------------------------------------------------------
(* Properties of the sweep with listeners *)

\* C35: a pass of the sweep during which a listener removes a device ends
\* without NotFound, emits no deviceOffline(d) after d was removed, and leaves
\* no registered device with a stale online status.
C35_SweepRobust ==
    [][ret'.op = "checkDevicesStatus" =>
          /\ ret'.result = "ok"
          /\ \A d \in DOMAIN devices : \A i, j \in 1..Len(emitted') :
                (emitted'[i] = Event("deviceRemoved", d) /\ emitted'[j] = OfflineEvent(d)) =>
                   j < i
          /\ \A d \in DOMAIN devices' :
                ~IsStale(devices'[d], now, 2 * statusUpdateInterval)]_vars

----------------------------------------------------------------------------
(* Properties of the connection *)

\* C36: in every reachable state at most one interval of the status check
\* is active, and it is the one the manager holds; connect made again without
\* a disconnect, connect that fails and disconnect without a connect included.
C36_OneTimer ==
    /\ timers <= 1
    /\ timers = IF statusCheckInterval THEN 1 ELSE 0

\* a connect has failed after an earlier one had started the status check
C36_Witness ==
    /\ ret.op = "connect"
    /\ ret.result = "COMMAND_FAILED"
    /\ statusCheckInterval
    /\ timers = 1

\* C37: in every reachable state in which the handler reports not connected
\* the timer of the status check is not running.
C37_NoSweepDisconnected ==
    ~isClientConnected => (~statusCheckInterval /\ timers = 0)

\* C38: whenever the handler reports connected, a subscribe has been issued
\* on the present client for the status topic, under the present prefix, of
\* every registered device; while it reports not connected no step other
\* than a connect issues a subscribe.
C38_SubscriptionCoverage ==
    /\ [](isClientConnected => AllStatusTopics(topicPrefix) \subseteq subscriptions)
    /\ [][(~isClientConnected /\ ret'.op # "connect") =>
             subscriptions' \subseteq subscriptions]_vars

\* the device registered under id is as registerDevice makes it: no status,
\* an empty list of groups, and in the member set of no group
Fresh(devs, grps, id) ==
    /\ id \in DOMAIN devs
    /\ ~("status" \in DOMAIN devs[id])
    /\ devs[id].groups = <<>>
    /\ \A g \in DOMAIN grps : ~(id \in grps[g])

\* C39: a step in which a device is registered with no groups, after a
\* removal or not, leaves it fresh, whatever status and memberships a removed
\* device of that id had; and a pass of the sweep gives no status to a
\* device that has none nor emits deviceOffline for it.
C39_NoResidue ==
    [][\A id \in {Dev1, Dev2} :
          /\ Includes(emitted', Event("deviceRegistered", id)) =>
                 /\ Fresh(devices', groups', id)
                 /\ \A i, j \in 1..Len(emitted') :
                       (i < j /\ emitted'[i] = Event("deviceRegistered", id)) =>
                          emitted'[j] # Event("deviceOffline", id)
          /\ (/\ ret'.op = "checkDevicesStatus"
              /\ id \in DOMAIN devices
              /\ ~("status" \in DOMAIN devices[id])) =>
                 (/\ ~Includes(emitted', Event("deviceOffline", id))
                  /\ id \in DOMAIN devices' => ~("status" \in DOMAIN devices'[id]))]_vars

\* the step is one in which the handler hears 'connect' of its client
HearsConnect ==
    \/ ret'.op = "transportConnect"
    \/ ret'.op = "connect" /\ ret'.result # "CONNECTION"

\* the step is the 'offline' event or a disconnect that succeeds
HearsOfflineOrEnds ==
    \/ ret'.op = "offline"
    \/ ret'.op = "disconnect" /\ ret'.result = "ok"

\* C40: isClientConnected is false at the start, becomes true in the steps
\* in which the handler hears 'connect' (there is a client then), becomes
\* false in the steps of 'offline' and of a successful disconnect, and
\* changes in no other step; while it is false publish, subscribe and
\* unsubscribe end with the connection error and ask nothing of the client;
\* disconnect with no client succeeds and changes nothing of the handler;
\* a disconnect that fails leaves the handler as it was.
C40_Connectivity ==
    /\ ~isClientConnected
    /\ [][/\ isClientConnected' = (IF HearsConnect THEN TRUE
                                   ELSE IF HearsOfflineOrEnds THEN FALSE
                                   ELSE isClientConnected)
          /\ isClientConnected' => mqtt'.client
          /\ (ret'.op \in {"publish", "subscribe", "unsubscribe"} /\ ~isClientConnected) =>
                (/\ ret'.result = "CONNECTION"
                 /\ published' = <<>>
                 /\ subscriptions' = subscriptions)
          /\ (ret'.op = "disconnect" /\ ~mqtt.client) =>
                (ret'.result = "ok" /\ mqtt' = mqtt)
          /\ (ret'.op = "disconnect" /\ ret'.result = "CONNECTION") => mqtt' = mqtt]_vars

\* a publish has been rejected on a handler whose client went offline while
\* topics were subscribed
C40_Witness ==
    /\ ret.op = "publish"
    /\ ret.result = "CONNECTION"
    /\ mqtt.client
    /\ ~mqtt.isConnected
    /\ subscriptions # {}

====
